---- MODULE Spec2Model ----
(***************************************************************************)
(* A model of the Aave v3 liquidation bot: the profit calculation of the   *)
(* Liquidator, its two execution paths (flash loan and direct), the        *)
(* StrategyManager / strategy objects that call them, the                  *)
(* HealthFactorMonitor's monitored set, and executeStrategy's choice of    *)
(* the best opportunity.                                                   *)
(*                                                                         *)
(* Units.  BigNumber and floating point values are represented by exact    *)
(* integers in scaled units:                                               *)
(*   - time: one clock unit is 30000 ms (Date.now() differences);          *)
(*   - health factor: hundredths (parseUnits('0.95', 18) is 95);           *)
(*   - gas price: gwei;                                                    *)
(*   - USD amounts: 1/UsdScale of a dollar, which makes the flash loan     *)
(*     premium (9/10000) and the products of the calculation exact;        *)
(*   - price discrepancy: hundredths of a percent;                         *)
(*   - token amounts: base units of an asset with 0..MaxDecimals decimals; *)
(*     oracle prices whole dollars.  Floating point USD amounts are kept   *)
(*     exact in their scaled unit.                                         *)
(* JavaScript runs one continuation at a time: every action below is the   *)
(* code between two awaits.                                                *)
(***************************************************************************)
EXTENDS Integers, Sequences, FiniteSets, Bags, TLC

VARIABLES
    now,                \* Date.now(), in clock units
    isRunning,          \* StrategyManager.isRunning
    timers,             \* pending setTimeout callbacks: sequence of due times
    lastExecutionTime,  \* StrategyManager.lastExecutionTime
    executionHistory,   \* StrategyManager.executionHistory
    oracleHistory,      \* OracleDelayStrategy.executionHistory
    eModeHistory,       \* EModeStrategy.executionHistory
    tasks,              \* the asynchronous invocations in progress (a bag)
    returned,           \* what the Liquidator handed to its direct callers, in order
    lastTerminalAt,     \* when an attempt was last classified Settled or Failed
    calcIn,             \* inputs of the estimate under study
    calcOut,            \* the estimate computed from calcIn
    chainHf,            \* the health factor the pool reports for each address now
    monitoredUsers,     \* HealthFactorMonitor.monitoredUsers, in insertion order
    monitorCall,        \* the HealthFactorMonitor call under way
    monitorOut,         \* what the last HealthFactorMonitor call returned
    selection,          \* executeStrategy's search for the best opportunity
    priceCache,         \* PriceMonitor.priceCache: per asset, the latest quote
    priceCall,          \* the getPriceData call under way
    priceOut,           \* how the last getPriceData call ended
    priceAsked,         \* the last hasPriceDiscrepancy call and its answer
    scanIn,             \* the strategy scan under study: what it reads
    scanOut,            \* the candidate list the scan returned
    flashCalculation,   \* the calculation handed to executeLiquidation
    flashParams,        \* the params bytes it encoded for the flash loan
    poolLiquidationCall, \* what executeOperation passed to POOL.liquidationCall
    reservesList,       \* HealthFactorMonitor.reservesList
    reservesData,       \* HealthFactorMonitor.reservesData: per asset, the cached info
    reserveCalls,       \* per operation of the monitor, where it is with the reserves
    reserveReads,       \* per asset, the configuration reads the data source served
    exited              \* process.exit() was called

vars == <<now, isRunning, timers, lastExecutionTime, executionHistory,
          oracleHistory, eModeHistory, tasks, returned, lastTerminalAt,
          calcIn, calcOut,
         chainHf, monitoredUsers, monitorCall, monitorOut, selection,
         priceCache, priceCall, priceOut, priceAsked, scanIn, scanOut,
         flashCalculation, flashParams, poolLiquidationCall,
         reservesList, reservesData, reserveCalls, reserveReads, exited>>

orchVars == <<now, isRunning, timers, lastExecutionTime, executionHistory,
              oracleHistory, eModeHistory, tasks, returned, lastTerminalAt, exited>>

calcVars == <<calcIn, calcOut>>

monVars == <<chainHf, monitoredUsers, monitorCall, monitorOut>>

selVars == <<selection>>

priceVars == <<priceCache, priceCall, priceOut, priceAsked>>

scanVars == <<scanIn, scanOut>>

paramVars == <<flashCalculation, flashParams, poolLiquidationCall>>

reserveVars == <<reservesList, reservesData, reserveCalls, reserveReads>>

----------------------------------------------------------------------------
(* Bounds of the model *)

MaxTime == 4
MaxTasks == 2
MaxResults == 2
MaxAmount == 6
MaxDecimals == 2

(* Program constants *)

executionCooldown == 2
monitoringInterval == 1
errorBackoff == 2
maxGasPriceGwei == 100
minProfitUsd == 50
closeFactorHfThreshold == 95
healthFactorLiquidationThreshold == 100
healthFactorThreshold == 105
flashLoanPremium == 9
estimateGasLimit == 1000000
defaultLiquidationBonusBps == 10500
safetyMarginPercent == 95
fullCloseFactor == 10000
halfCloseFactor == 5000
priceDifferenceThreshold == 2
minPriceDiscrepancyPercent == 200
UsdScale == 10000
GweiPerEther == 1000000000

None == "none"

----------------------------------------------------------------------------
(* Exact rational numbers for the floating point priority score *)

RECURSIVE Gcd(_, _)
Gcd(a, b) == IF b = 0 THEN a ELSE Gcd(b, a % b)

Abs(x) == IF x < 0 THEN -x ELSE x

Frac(n, d) ==
    IF n = 0 THEN [n |-> 0, d |-> 1]
    ELSE LET g == Gcd(Abs(n), d) IN [n |-> n \div g, d |-> d \div g]

FracMul(p, n, d) ==
    LET g1 == Gcd(Abs(p.n), d)
        g2 == Gcd(n, p.d)
        h1 == IF g1 = 0 THEN 1 ELSE g1
    IN  Frac((p.n \div h1) * (n \div g2), (p.d \div g2) * (d \div h1))

\* a/b > c/d for a, c >= 0 and b, d > 0, without forming the cross products
RECURSIVE FracGtR(_, _, _, _)
FracGtR(a, b, c, d) ==
    LET qa == a \div b
        qc == c \div d
        ra == a % b
        rc == c % d
    IN  IF qa # qc THEN qa > qc
        ELSE IF ra = 0 THEN FALSE
        ELSE IF rc = 0 THEN TRUE
        ELSE FracGtR(d, rc, b, ra)

FracGt(p, q) == FracGtR(p.n, p.d, q.n, q.d)

----------------------------------------------------------------------------
(* Liquidator.calculateLiquidationProfit *)

\* a variant that also gives the full close factor at the threshold itself
closeFactorMultiplierInclusive(healthFactor) ==
    IF healthFactor <= closeFactorHfThreshold THEN fullCloseFactor ELSE halfCloseFactor

\* target.healthFactor.lt(config.closeFactorHfThreshold) ? 10000 : 5000
closeFactorMultiplier(healthFactor) ==
    IF healthFactor < closeFactorHfThreshold THEN fullCloseFactor ELSE halfCloseFactor

\* a variant that takes the whole debt whatever the close factor
maxDebtToCoverWhole(healthFactor, amount) == amount

\* debtAsset.amount.mul(closeFactorMultiplier).div(10000)
maxDebtToCover(healthFactor, amount) ==
    (amount * closeFactorMultiplier(healthFactor)) \div fullCloseFactor

\* maxDebtToCover.mul(95).div(100)
debtToCoverOf(healthFactor, amount) ==
    (maxDebtToCover(healthFactor, amount) * safetyMarginPercent) \div 100

\* The configured bonuses (basis points) b for which the double
\* Math.floor((b / 10000) * 10000) is b - 1: b / 10000 rounds below the exact
\* quotient and the product stays below b (IEEE 754 binary64).  Of the
\* bonuses the model draws, only 10050 is one (1.005 * 10000 is
\* 10049.999999999998).
BonusesRoundedDown == {10050}

\* reserveInfo.liquidationBonus.toNumber() / 10000 in getUserDetailedPosition,
\* then Math.floor((collateralAsset.liquidationBonus || 1.05) * 10000);
\* bonus is the configured value in basis points, 0 when there is none
liquidationBonusBps(bonus) ==
    IF bonus = 0 THEN defaultLiquidationBonusBps
    ELSE IF bonus \in BonusesRoundedDown THEN bonus - 1
    ELSE bonus

RECURSIVE Pow10(_)
Pow10(k) == IF k = 0 THEN 1 ELSE 10 * Pow10(k - 1)

\* the chain of mul and three successive div of collateralToReceive
collateralToReceiveOf(debtPrice, debtToCover, collateralDecimals, bonus, collateralPrice, debtDecimals) ==
    (((debtPrice * debtToCover * Pow10(collateralDecimals) * liquidationBonusBps(bonus))
        \div collateralPrice) \div Pow10(debtDecimals)) \div 10000

\* gasPrice.mul(gasLimit), formatEther, times the native asset's price
gasCostUsdOf(gasPrice, ethPrice) ==
    gasPrice * ethPrice * (estimateGasLimit \div (GweiPerEther \div UsdScale))

\* a variant that credits the premium instead of charging it
flashLoanRebateUsdOf(debtAmountUsd, premium) ==
    0 - (debtAmountUsd * premium) \div 10000

\* debtAmountUsd * (premium / 10000)
flashLoanCostUsdOf(debtAmountUsd, premium) ==
    (debtAmountUsd * premium) \div 10000

\* parseFloat(formatUnits(amount, decimals)) * parseFloat(formatUnits(price, 8))
amountUsdOf(amount, decimals, price) ==
    (amount * price * UsdScale) \div Pow10(decimals)

\* a variant that scores unprofitable estimates as well
executionPriorityUnconditional(profitable, netProfitUsd, debtAmountUsd) ==
    IF debtAmountUsd > 0 /\ netProfitUsd > 0
    THEN FracMul(Frac(netProfitUsd, debtAmountUsd), 100, 1)
    ELSE Frac(0, 1)

\* profitable ? (netProfitUsd / debtAmountUsd) * 100 : 0
executionPriorityOf(profitable, netProfitUsd, debtAmountUsd) ==
    IF profitable THEN FracMul(Frac(netProfitUsd, debtAmountUsd), 100, 1)
    ELSE Frac(0, 1)

\* One estimate, for a flash loan premium.  in: [user, healthFactor,
\* eModeCategoryId, amount, bonus, debtPrice, collateralPrice, ethPrice,
\* gasPrice, debtDecimals, collateralDecimals]
estimateWithPremium(in, premium) ==
    LET debtToCover == debtToCoverOf(in.healthFactor, in.amount)
        collateralToReceive ==
            collateralToReceiveOf(in.debtPrice, debtToCover, in.collateralDecimals,
                                  in.bonus, in.collateralPrice, in.debtDecimals)
        debtAmountUsd == amountUsdOf(debtToCover, in.debtDecimals, in.debtPrice)
        collateralAmountUsd ==
            amountUsdOf(collateralToReceive, in.collateralDecimals, in.collateralPrice)
        grossProfitUsd == collateralAmountUsd - debtAmountUsd
        flashLoanCostUsd == flashLoanCostUsdOf(debtAmountUsd, premium)
        gasCostUsd == gasCostUsdOf(in.gasPrice, in.ethPrice)
        netProfitUsd == grossProfitUsd - flashLoanCostUsd - gasCostUsd
        profitable == netProfitUsd > minProfitUsd * UsdScale
    IN  [user |-> in.user,
         healthFactor |-> in.healthFactor,
         eModeCategoryId |-> in.eModeCategoryId,
         amount |-> in.amount,
         debtToCover |-> debtToCover,
         collateralToReceive |-> collateralToReceive,
         estimatedProfitUsd |-> grossProfitUsd,
         estimatedGasCostUsd |-> gasCostUsd + flashLoanCostUsd,
         netProfitUsd |-> netProfitUsd,
         profitable |-> profitable,
         executionPriority |->
            executionPriorityOf(profitable, netProfitUsd, debtAmountUsd)]

\* Liquidator.calculateLiquidationProfit, with this.flashLoanPremium
calculateLiquidationProfit(in) == estimateWithPremium(in, flashLoanPremium)

----------------------------------------------------------------------------
(* The estimate alone: inputs drawn from bounded sets, then the calculation *)

HealthFactors == 93..100
AmountChoices == (0..MaxAmount) \cup {1000 * k : k \in 1..MaxAmount}
BonusChoices == {0, 10050, 10100, 10500}
DecimalChoices == 0..MaxDecimals
PriceChoices == {1, 3}
\* flash loan premiums in basis points, around the one in force
PremiumChoices == {0, flashLoanPremium, flashLoanPremium + 1, 3 * flashLoanPremium}
GasPrices == {maxGasPriceGwei - 1, maxGasPriceGwei, maxGasPriceGwei + 1}
\* the gas prices read when an execution is attempted: at and above the ceiling
AttemptGasPrices == {maxGasPriceGwei, maxGasPriceGwei + 1}
OraclePrices == [debt |-> 1, collateral |-> 1, native |-> 20]

\* whole-token assets at the oracle prices, over every health factor, amount
\* and gas price
CalcInputsWhole ==
    [user : {"u1"}, healthFactor : HealthFactors, eModeCategoryId : {0, 1},
     amount : AmountChoices, bonus : BonusChoices,
     debtPrice : {OraclePrices.debt}, collateralPrice : {OraclePrices.collateral},
     ethPrice : {OraclePrices.native}, gasPrice : GasPrices,
     debtDecimals : {0}, collateralDecimals : {0}]

\* small amounts of assets of every decimals and price, around the close
\* factor threshold
CalcInputsDecimals ==
    [user : {"u1"},
     healthFactor : {closeFactorHfThreshold - 1, closeFactorHfThreshold},
     eModeCategoryId : {0},
     amount : 0..MaxAmount, bonus : BonusChoices,
     debtPrice : PriceChoices, collateralPrice : PriceChoices,
     ethPrice : {OraclePrices.native}, gasPrice : {maxGasPriceGwei},
     debtDecimals : DecimalChoices, collateralDecimals : DecimalChoices]

CalcInputs == CalcInputsWhole \cup CalcInputsDecimals

\* An ExecutionResult.  cause is not a field of the program's record: it tells
\* which branch of the Liquidator produced the result.  The timestamp field
\* (Date.now() at the return) is not kept in the record; lastTerminalAt holds
\* it for the latest result that carries a receipt.
NoResult == [success |-> FALSE, transactionHash |-> None, error |-> None, cause |-> None]

\* An invocation: the entry point, where it is suspended, the Date.now() it
\* captured, the estimates it still executes (the first is the current one),
\* the gas price and balance it read (0 before the read).  early and earlyT
\* record what was true when it was requested.
TaskOf(entry, pc) ==
    [entry |-> entry, pc |-> pc, now |-> 0, queue |-> <<>>, gas |-> 0, bal |-> 0,
     early |-> FALSE, earlyT |-> FALSE]


\* The fields of the singletons after construction; Date.now() is far beyond
\* the cooldown, so the first cooldown check passes
OrchIdle ==
    /\ now = executionCooldown
    /\ isRunning = FALSE
    /\ timers = <<>>
    /\ lastExecutionTime = 0
    /\ executionHistory = <<>>
    /\ oracleHistory = <<>>
    /\ eModeHistory = <<>>
    /\ tasks = EmptyBag
    /\ returned = <<>>
    /\ lastTerminalAt = 0
    /\ exited = FALSE

\* The addresses the bot knows of, and the health factors the pool can report
\* for one: below the liquidation threshold, at it, at the watch threshold and
\* above it
Addresses == {"u1", "u2"}
HfChoices == {healthFactorLiquidationThreshold - 1, healthFactorLiquidationThreshold,
              healthFactorThreshold, healthFactorThreshold + 1}

\* no HealthFactorMonitor call under way
IdleCall ==
    [op |-> "idle", pc |-> "idle", todo |-> <<>>, read |-> 0, out |-> <<>>,
     log |-> <<>>, before |-> {}]

\* the HealthFactorMonitor after construction: monitoredUsers = new Map()
MonitorIdle ==
    /\ monitoredUsers = <<>>
    /\ monitorCall = IdleCall
    /\ monitorOut = <<>>

\* executeStrategy not running
IdleSelection ==
    [pc |-> "idle", positions |-> <<>>, todo |-> <<>>, best |-> <<>>,
     failed |-> <<>>, chosen |-> <<>>, observed |-> <<>>]

\* the assets the price monitor is asked about
PriceAssets == {"WETH", "DAI"}

\* getPriceData not running
IdlePriceCall == [pc |-> "idle", asset |-> None, aave |-> 0, dex |-> <<>>]

\* new Map(): no asset has a quote
EmptyCache == [a \in PriceAssets |-> <<>>]

PriceIdle ==
    /\ priceCache = EmptyCache
    /\ priceCall = IdlePriceCall
    /\ priceOut = <<>>
    /\ priceAsked = <<>>

\* no strategy scan under study
ScanIdle ==
    /\ scanIn = <<>>
    /\ scanOut = <<>>

\* no flash-loan parameters under study
ParamIdle ==
    /\ flashCalculation = <<>>
    /\ flashParams = <<>>
    /\ poolLiquidationCall = <<>>

\* the reserves the pool lists
ReserveAssets == {"WETH", "DAI"}

\* the operations of the monitor that ask for a reserve's info
ReserveCallers == {"initialize", "getUserDetailedPosition"}

\* the operation is not running
IdleReserveCall == [pc |-> "idle", asset |-> None, todo |-> <<>>, ended |-> None]

\* new Map(): no reserve info cached, nothing asked, nothing read
ReserveIdle ==
    /\ reservesList = <<>>
    /\ reservesData = [a \in ReserveAssets |-> <<>>]
    /\ reserveCalls = [c \in ReserveCallers |-> IdleReserveCall]
    /\ reserveReads = [a \in ReserveAssets |-> [served |-> 0, afterSuccess |-> 0]]

\* the components a specification leaves aside: nothing monitored, nothing
\* being selected, no price quoted
SideIdle ==
    /\ MonitorIdle
    /\ chainHf = [a \in Addresses |-> healthFactorThreshold]
    /\ selection = IdleSelection
    /\ PriceIdle
    /\ ScanIdle
    /\ ParamIdle
    /\ ReserveIdle

CalcInit ==
    /\ OrchIdle
    /\ SideIdle
    /\ calcIn \in CalcInputs
    /\ calcOut = <<>>

Estimate ==
    /\ calcOut = <<>>
    /\ calcOut' = <<calculateLiquidationProfit(calcIn)>>
    /\ UNCHANGED <<calcIn, orchVars, monVars, selVars, priceVars, scanVars, paramVars, reserveVars>>

NextInput ==
    /\ calcOut # <<>>
    /\ calcIn' \in CalcInputs
    /\ calcOut' = <<>>
    /\ UNCHANGED <<orchVars, monVars, selVars, priceVars, scanVars, paramVars, reserveVars>>

CalcNext == Estimate \/ NextInput

CalcSpec == CalcInit /\ [][CalcNext]_vars

----------------------------------------------------------------------------
(* The positions the health factor monitor can report, and what one scan    *)
(* reads                                                                     *)

Users == <<"u1", "u2">>

PositionOf ==
    [u1 |-> [healthFactor |-> 90, eModeCategoryId |-> 0, amount |-> 4000, bonus |-> 10500],
     u2 |-> [healthFactor |-> 97, eModeCategoryId |-> 1, amount |-> 6000, bonus |-> 10500]]

\* What getLiquidatablePositions can return: the monitored users, in the
\* order of the monitoredUsers map, that are below the liquidation threshold
PositionSeqs == {<<>>, <<Users[1]>>, <<Users[2]>>, Users}

Discrepancies == {0, 300}

UserSet == {Users[i] : i \in 1..Len(Users)}

\* One scan's reads: per position the gas price of its estimate and the
\* discrepancy percentages of its debt and collateral assets
ScanReads == [UserSet -> [gas : {maxGasPriceGwei}, dd : Discrepancies, dc : Discrepancies]]
PlainReads == [UserSet -> [gas : {maxGasPriceGwei}, dd : {0}, dc : {0}]]

\* what calculateLiquidationProfit is given for the pair of a position
InputOf(u, rd) ==
    [user |-> u, healthFactor |-> PositionOf[u].healthFactor,
     eModeCategoryId |-> PositionOf[u].eModeCategoryId,
     amount |-> PositionOf[u].amount, bonus |-> PositionOf[u].bonus,
     debtPrice |-> OraclePrices.debt, collateralPrice |-> OraclePrices.collateral,
     ethPrice |-> OraclePrices.native, gasPrice |-> rd[u].gas,
     debtDecimals |-> 0, collateralDecimals |-> 0]

EstimateOf(u, rd) == calculateLiquidationProfit(InputOf(u, rd))

\* what a strategy scan goes through: per position its pair and the
\* discrepancy percentages of the debt and of the collateral asset (0 when
\* the quote has none)
ItemsOf(seq, rd) ==
    [i \in 1..Len(seq) |->
        [in |-> InputOf(seq[i], rd), dd |-> rd[seq[i]].dd, dc |-> rd[seq[i]].dc]]

Estimates(seq, rd) == [i \in 1..Len(seq) |-> EstimateOf(seq[i], rd)]

\* a variant that reports a discrepancy equal to the threshold
discrepancyAtLeast(d) == d # 0 /\ d >= priceDifferenceThreshold

\* PriceMonitor.hasPriceDiscrepancy on the quote just cached
hasPriceDiscrepancy(d) == d # 0 /\ d > priceDifferenceThreshold

\* a variant that scales the net profit along with the priority
BoostScalingProfit(est, n, d) ==
    [est EXCEPT !.executionPriority = FracMul(@, n, d),
                !.netProfitUsd = (@ * n) \div d]

\* profitCalculation.executionPriority *= n / d
Boost(est, n, d) == [est EXCEPT !.executionPriority = FracMul(@, n, d)]

\* StrategyManager.executeStrategy: the first estimate of strictly greatest
\* priority among the profitable ones
RECURSIVE bestOpportunity(_, _)
bestOpportunity(ests, best) ==
    IF ests = <<>> THEN best
    ELSE LET e == Head(ests)
             better == e.profitable
                       /\ (best = <<>> \/ FracGt(e.executionPriority, best[1].executionPriority))
         IN  bestOpportunity(Tail(ests), IF better THEN <<e>> ELSE best)

\* a variant that puts an estimate before those of equal priority
RECURSIVE InsertBeforeEqual(_, _)
InsertBeforeEqual(sorted, e) ==
    IF sorted = <<>> THEN <<e>>
    ELSE IF ~FracGt(Head(sorted).executionPriority, e.executionPriority)
         THEN <<e>> \o sorted
         ELSE <<Head(sorted)>> \o InsertBeforeEqual(Tail(sorted), e)

\* opportunities.sort((a, b) => b.executionPriority - a.executionPriority)
RECURSIVE InsertDesc(_, _)
InsertDesc(sorted, e) ==
    IF sorted = <<>> THEN <<e>>
    ELSE IF FracGt(e.executionPriority, Head(sorted).executionPriority)
         THEN <<e>> \o sorted
         ELSE <<Head(sorted)>> \o InsertDesc(Tail(sorted), e)

RECURSIVE SortDesc(_)
SortDesc(ests) ==
    IF ests = <<>> THEN <<>>
    ELSE InsertDesc(SortDesc(SubSeq(ests, 1, Len(ests) - 1)), ests[Len(ests)])

\* StrategyManager.oracleDelayStrategy: the pairs it executes, in loop order
RECURSIVE managerOracleQueue(_, _)
managerOracleQueue(seq, rd) ==
    IF seq = <<>> THEN <<>>
    ELSE LET u == Head(seq)
             e == EstimateOf(u, rd)
             take == /\ hasPriceDiscrepancy(rd[u].dd)
                     /\ hasPriceDiscrepancy(rd[u].dc)
                     /\ e.profitable
                     /\ e.netProfitUsd > minProfitUsd * UsdScale * 2
         IN  (IF take THEN <<Boost(e, 3, 2)>> ELSE <<>>) \o managerOracleQueue(Tail(seq), rd)

\* StrategyManager.eModeStrategy: the pairs it executes, in loop order
RECURSIVE managerEModeQueue(_, _)
managerEModeQueue(seq, rd) ==
    IF seq = <<>> THEN <<>>
    ELSE LET u == Head(seq)
             e == EstimateOf(u, rd)
             take == /\ e.eModeCategoryId # 0
                     /\ e.profitable
                     /\ e.netProfitUsd * 2 > minProfitUsd * UsdScale * 3
         IN  (IF take THEN <<Boost(e, 6, 5)>> ELSE <<>>) \o managerEModeQueue(Tail(seq), rd)

\* OracleDelayStrategy.scan over the pairs, before the sort
RECURSIVE oracleScanned(_)
oracleScanned(items) ==
    IF items = <<>> THEN <<>>
    ELSE LET it == Head(items)
             e == calculateLiquidationProfit(it.in)
             take == /\ it.dd # 0
                     /\ it.dc # 0
                     /\ (it.dd >= minPriceDiscrepancyPercent
                         \/ it.dc >= minPriceDiscrepancyPercent)
                     /\ e.profitable
         IN  (IF take THEN <<Boost(e, 10000 + it.dd + it.dc, 10000)>> ELSE <<>>)
             \o oracleScanned(Tail(items))

\* a variant that lets every position through the E-Mode filter
inAnyMode(position) == TRUE

\* liquidatablePositions.filter(p => p.eModeCategoryId !== 0)
inEMode(position) == position.eModeCategoryId # 0

\* EModeStrategy.scan over the pairs, before the sort
RECURSIVE eModeScanned(_)
eModeScanned(items) ==
    IF items = <<>> THEN <<>>
    ELSE LET it == Head(items)
             e == calculateLiquidationProfit(it.in)
             take == inEMode(it.in) /\ e.profitable
         IN  (IF take THEN <<Boost(e, 6, 5)>> ELSE <<>>) \o eModeScanned(Tail(items))

\* OracleDelayStrategy.scan, before the sort
oracleOpportunities(seq, rd) == oracleScanned(ItemsOf(seq, rd))

\* EModeStrategy.scan, before the sort
eModeOpportunities(seq, rd) == eModeScanned(ItemsOf(seq, rd))

FirstOf(seq) == IF seq = <<>> THEN <<>> ELSE <<Head(seq)>>

\* The estimates an invocation goes on to execute, first to last
Candidates(entry, seq, rd) ==
    CASE entry = "loop" -> bestOpportunity(Estimates(seq, rd), <<>>)
      [] entry = "oracleDelayStrategy" -> managerOracleQueue(seq, rd)
      [] entry = "eModeStrategy" -> managerEModeQueue(seq, rd)
      [] entry = "oracleExecute" -> FirstOf(SortDesc(oracleOpportunities(seq, rd)))
      [] entry = "eModeExecute" -> FirstOf(SortDesc(eModeOpportunities(seq, rd)))

\* What an invocation can find to execute, over the positions reported and
\* the prices and gas price read while scanning
CandidateQueues(entry) ==
    {Candidates(entry, seq, rd) :
        seq \in PositionSeqs,
        rd \in IF entry \in {"oracleDelayStrategy", "oracleExecute"}
               THEN ScanReads ELSE PlainReads}

----------------------------------------------------------------------------
(* Liquidator.executeLiquidation and executeDirectLiquidation: the results *)

Returned(r) == [kind |-> "returned", result |-> r]

\* currentGasPrice.gt(maxGasPrice)
gasPriceTooHigh(gas) == gas > maxGasPriceGwei

\* return { success: false, error: 'Gas price too high', timestamp }
gasTooHighResult ==
    [success |-> FALSE, transactionHash |-> None, error |-> "Gas price too high",
     cause |-> None]

\* a variant that lets a balance one short of debtToCover pass
insufficientBalanceOffByOne(balance, debtToCover) == balance + 1 < debtToCover

\* debtTokenBalance.lt(debtToCover)
insufficientBalance(balance, debtToCover) == balance < debtToCover

\* return { success: false, error: 'Insufficient balance', timestamp }
insufficientBalanceResult ==
    [success |-> FALSE, transactionHash |-> None, error |-> "Insufficient balance",
     cause |-> None]

\* a variant that reports success whatever the receipt says
receiptResultAlwaysSuccess(status) ==
    [success |-> TRUE, transactionHash |-> "tx", error |-> None, cause |-> None]

\* const success = receipt.status === 1, and the two returns that follow
receiptResult(status) ==
    IF status = 1
    THEN [success |-> TRUE, transactionHash |-> "tx", error |-> None, cause |-> None]
    ELSE [success |-> FALSE, transactionHash |-> "tx", error |-> "Transaction failed",
          cause |-> None]

\* a variant without the catch: the exception leaves the method
catchExecutionRethrow(message) == [kind |-> "thrown", result |-> NoResult]

\* catch (error) { return { success: false, error: error.message, timestamp } }
catchExecution(message) ==
    Returned([success |-> FALSE, transactionHash |-> None, error |-> message,
              cause |-> None])

\* error.message of whatever an awaited call threw
ThrownMessage == "exception"

----------------------------------------------------------------------------
(* Bookkeeping of the invocations *)

TaskSet == BagToSet(tasks)

One(r) == SetToBag({r})

HasFree == BagCardinality(tasks) < MaxTasks

\* the sum of weight[r] over the invocations in S, with their multiplicity
RECURSIVE CountIn(_, _)
CountIn(S, weight) ==
    IF S = {} THEN 0
    ELSE LET r == CHOOSE x \in S : TRUE
         IN  CopiesIn(r, tasks) * weight[r] + CountIn(S \ {r}, weight)

QueueLen == [r \in TaskSet |-> Len(r.queue)]
IsLoop == [r \in TaskSet |-> IF r.entry = "loop" THEN 1 ELSE 0]
IsInFlight == [r \in TaskSet |-> IF r.pc \in {"wait", "directWait"} THEN 1 ELSE 0]

TotalResults ==
    Len(executionHistory) + Len(oracleHistory) + Len(eModeHistory) + Len(returned)

\* room for n more attempts within the bound on recorded results
Budget(n) == TotalResults + CountIn(TaskSet, QueueLen) + n <= MaxResults

Loops == Len(timers) + CountIn(TaskSet, IsLoop)

\* the liquidations submitted and not yet classified
InFlight == CountIn(TaskSet, IsInFlight)

\* setTimeout(callback, delay): the pending callbacks, earliest first
RECURSIVE Schedule(_, _)
Schedule(ts, due) ==
    IF ts = <<>> THEN <<due>>
    ELSE IF due < Head(ts) THEN <<due>> \o ts
    ELSE <<Head(ts)>> \o Schedule(Tail(ts), due)

----------------------------------------------------------------------------
(* What each caller does with the outcome of the Liquidator call           *)

\* a variant of executeStrategy that records the result and leaves
\* lastExecutionTime alone
executeStrategyRecordNoStamp(r, out) ==
    /\ IF out.kind = "returned"
       THEN executionHistory' = Append(executionHistory, out.result)
       ELSE UNCHANGED executionHistory
    /\ UNCHANGED lastExecutionTime
    /\ timers' = Schedule(timers, now + monitoringInterval)
    /\ tasks' = tasks (-) One(r)
    /\ UNCHANGED <<oracleHistory, eModeHistory, returned>>

\* executeStrategy after await executeLiquidation, then continuousMonitoring's
\* setTimeout; an exception is caught by executeStrategy's own catch
executeStrategyRecord(r, out) ==
    /\ IF out.kind = "returned"
       THEN /\ lastExecutionTime' = r.now
            /\ executionHistory' = Append(executionHistory, out.result)
       ELSE UNCHANGED <<lastExecutionTime, executionHistory>>
    /\ timers' = Schedule(timers, now + monitoringInterval)
    /\ tasks' = tasks (-) One(r)
    /\ UNCHANGED <<oracleHistory, eModeHistory, returned>>

\* a variant of the two strategies that records the result of a successful
\* attempt only
managerStrategyRecordSuccesses(r, out) ==
    /\ IF out.kind = "returned" /\ out.result.success
       THEN /\ executionHistory' = Append(executionHistory, out.result)
            /\ lastExecutionTime' = now
       ELSE UNCHANGED <<executionHistory, lastExecutionTime>>
    /\ tasks' = IF (out.kind = "returned" /\ out.result.success) \/ Len(r.queue) = 1
                THEN tasks (-) One(r)
                ELSE (tasks (-) One(r))
                     (+) One([r EXCEPT !.queue = Tail(@), !.pc = "gas", !.gas = 0])
    /\ UNCHANGED <<timers, oracleHistory, eModeHistory, returned>>

\* StrategyManager.oracleDelayStrategy and eModeStrategy after the await:
\* record, stop on success, otherwise go on with the next pair
managerStrategyRecord(r, out) ==
    /\ IF out.kind = "returned"
       THEN /\ executionHistory' = Append(executionHistory, out.result)
            /\ lastExecutionTime' = now
            /\ tasks' = IF out.result.success \/ Len(r.queue) = 1
                        THEN tasks (-) One(r)
                        ELSE (tasks (-) One(r))
                             (+) One([r EXCEPT !.queue = Tail(@), !.pc = "gas", !.gas = 0])
       ELSE /\ UNCHANGED <<executionHistory, lastExecutionTime>>
            /\ tasks' = tasks (-) One(r)
    /\ UNCHANGED <<timers, oracleHistory, eModeHistory, returned>>

\* OracleDelayStrategy.execute after the await
oracleExecuteRecord(r, out) ==
    /\ oracleHistory' = IF out.kind = "returned" THEN Append(oracleHistory, out.result)
                        ELSE oracleHistory
    /\ tasks' = tasks (-) One(r)
    /\ UNCHANGED <<timers, lastExecutionTime, executionHistory, eModeHistory, returned>>

\* EModeStrategy.execute after the await
eModeExecuteRecord(r, out) ==
    /\ eModeHistory' = IF out.kind = "returned" THEN Append(eModeHistory, out.result)
                       ELSE eModeHistory
    /\ tasks' = tasks (-) One(r)
    /\ UNCHANGED <<timers, lastExecutionTime, executionHistory, oracleHistory, returned>>

\* a direct call of executeLiquidation or executeDirectLiquidation hands the
\* outcome to its caller
returnToCaller(r, out) ==
    /\ returned' = Append(returned, out)
    /\ tasks' = tasks (-) One(r)
    /\ UNCHANGED <<timers, lastExecutionTime, executionHistory, oracleHistory,
                   eModeHistory>>

\* The Liquidator call of invocation r ends with an outcome, for the reason
\* cause; end is r with what it read in this last step
FinishAs(r, end, cause, outcome) ==
    LET out == [kind |-> outcome.kind,
                result |-> [outcome.result EXCEPT !.cause = cause],
                task |-> end] IN
    /\ CASE r.entry = "loop" -> executeStrategyRecord(r, out)
         [] r.entry \in {"oracleDelayStrategy", "eModeStrategy"} ->
                managerStrategyRecord(r, out)
         [] r.entry = "oracleExecute" -> oracleExecuteRecord(r, out)
         [] r.entry = "eModeExecute" -> eModeExecuteRecord(r, out)
         [] r.entry \in {"flash", "direct"} -> returnToCaller(r, out)
    /\ lastTerminalAt' = IF out.result.transactionHash # None THEN now ELSE lastTerminalAt
    /\ UNCHANGED <<now, isRunning, calcVars,
                   monVars, selVars, priceVars, scanVars, paramVars, reserveVars, exited>>

Finish(r, cause, outcome) == FinishAs(r, r, cause, outcome)

\* a variant that takes the cycle without an attempt for an execution and
\* stamps lastExecutionTime
EndWithoutStamped(r) ==
    /\ tasks' = tasks (-) One(r)
    /\ timers' = IF r.entry = "loop"
                 THEN Schedule(timers, now + monitoringInterval) ELSE timers
    /\ lastExecutionTime' = now
    /\ UNCHANGED <<now, isRunning, executionHistory, oracleHistory,
                   eModeHistory, returned, lastTerminalAt, calcVars,
                   monVars, selVars, priceVars, scanVars, paramVars, reserveVars, exited>>

\* The invocation r ends without calling the Liquidator
EndWithout(r) ==
    /\ tasks' = tasks (-) One(r)
    /\ timers' = IF r.entry = "loop"
                 THEN Schedule(timers, now + monitoringInterval) ELSE timers
    /\ UNCHANGED <<now, isRunning, lastExecutionTime, executionHistory, oracleHistory,
                   eModeHistory, returned, lastTerminalAt, calcVars,
                   monVars, selVars, priceVars, scanVars, paramVars, reserveVars, exited>>

\* r moves on to r2 and nothing else changes
Step(r, r2) ==
    /\ tasks' = (tasks (-) One(r)) (+) One(r2)
    /\ UNCHANGED <<now, isRunning, timers, lastExecutionTime, executionHistory,
                   oracleHistory, eModeHistory, returned, lastTerminalAt, calcVars,
                   monVars, selVars, priceVars, scanVars, paramVars, reserveVars, exited>>

\* a new invocation r begins and nothing else changes
Begin(r) ==
    /\ HasFree
    /\ tasks' = tasks (+) One(r)
    /\ UNCHANGED <<now, isRunning, timers, lastExecutionTime, executionHistory,
                   oracleHistory, eModeHistory, returned, lastTerminalAt, calcVars,
                   monVars, selVars, priceVars, scanVars, paramVars, reserveVars, exited>>

----------------------------------------------------------------------------
(* StrategyManager: start, stop and the monitoring loop *)

\* what held when the invocation was requested
Requested(r) ==
    [r EXCEPT !.early = r.entry # "loop" /\ now - lastExecutionTime < executionCooldown,
              !.earlyT = r.entry = "loop" /\ lastTerminalAt > 0
                         /\ now - lastTerminalAt < executionCooldown]

\* start(): isRunning = true, then the initial scanForOpportunities
Start ==
    /\ ~isRunning
    /\ HasFree
    /\ Loops < MaxTasks
    /\ isRunning' = TRUE
    /\ tasks' = tasks (+) One(TaskOf("loop", "startScan"))
    /\ UNCHANGED <<now, timers, lastExecutionTime, executionHistory, oracleHistory,
                   eModeHistory, returned, lastTerminalAt, calcVars,
                   monVars, selVars, priceVars, scanVars, paramVars, reserveVars, exited>>

\* stop()
Stop ==
    /\ isRunning
    /\ isRunning' = FALSE
    /\ UNCHANGED <<now, timers, lastExecutionTime, executionHistory, oracleHistory,
                   eModeHistory, tasks, returned, lastTerminalAt, calcVars,
                   monVars, selVars, priceVars, scanVars, paramVars, reserveVars, exited>>

\* start()'s scan is over; continuousMonitoring() begins unless stopped
StartScanDone(r) ==
    /\ r.pc = "startScan"
    /\ \E ok \in BOOLEAN :
        tasks' = IF ok /\ isRunning
                 THEN (tasks (-) One(r)) (+) One([r EXCEPT !.pc = "cycleScan"])
                 ELSE tasks (-) One(r)
    /\ UNCHANGED <<now, isRunning, timers, lastExecutionTime, executionHistory,
                   oracleHistory, eModeHistory, returned, lastTerminalAt, calcVars,
                   monVars, selVars, priceVars, scanVars, paramVars, reserveVars, exited>>

\* a variant of the timer callback that does not look at isRunning
TimerFireUnchecked ==
    /\ timers # <<>>
    /\ Head(timers) <= now
    /\ timers' = Tail(timers)
    /\ HasFree
    /\ tasks' = tasks (+) One(TaskOf("loop", "cycleScan"))
    /\ UNCHANGED <<now, isRunning, lastExecutionTime, executionHistory, oracleHistory,
                   eModeHistory, returned, lastTerminalAt, calcVars,
                   monVars, selVars, priceVars, scanVars, paramVars, reserveVars, exited>>

\* A timer fires: continuousMonitoring() returns at once when stopped
TimerFire ==
    /\ timers # <<>>
    /\ Head(timers) <= now
    /\ timers' = Tail(timers)
    /\ IF isRunning
       THEN /\ HasFree
            /\ tasks' = tasks (+) One(TaskOf("loop", "cycleScan"))
       ELSE UNCHANGED tasks
    /\ UNCHANGED <<now, isRunning, lastExecutionTime, executionHistory, oracleHistory,
                   eModeHistory, returned, lastTerminalAt, calcVars,
                   monVars, selVars, priceVars, scanVars, paramVars, reserveVars, exited>>

\* a variant whose catch gives up instead of scheduling the next cycle
CycleScanDoneGivingUp(r) ==
    /\ r.pc = "cycleScan"
    /\ \E ok \in BOOLEAN :
        IF ~ok
        THEN /\ timers' = timers
             /\ tasks' = tasks (-) One(r)
        ELSE IF now - lastExecutionTime < executionCooldown
        THEN /\ timers' = Schedule(timers, now + monitoringInterval)
             /\ tasks' = tasks (-) One(r)
        ELSE /\ timers' = timers
             /\ tasks' = (tasks (-) One(r))
                         (+) One(Requested([r EXCEPT !.pc = "positions", !.now = now]))
    /\ UNCHANGED <<now, isRunning, lastExecutionTime, executionHistory, oracleHistory,
                   eModeHistory, returned, lastTerminalAt, calcVars,
                   monVars, selVars, priceVars, scanVars, paramVars, reserveVars, exited>>

\* continuousMonitoring after await scanForOpportunities: on an error the
\* catch reschedules later; otherwise executeStrategy starts with its
\* cooldown check
CycleScanDone(r) ==
    /\ r.pc = "cycleScan"
    /\ \E ok \in BOOLEAN :
        IF ~ok
        THEN /\ timers' = Schedule(timers, now + errorBackoff)
             /\ tasks' = tasks (-) One(r)
        ELSE IF now - lastExecutionTime < executionCooldown
        THEN /\ timers' = Schedule(timers, now + monitoringInterval)
             /\ tasks' = tasks (-) One(r)
        ELSE /\ timers' = timers
             /\ tasks' = (tasks (-) One(r))
                         (+) One(Requested([r EXCEPT !.pc = "positions", !.now = now]))
    /\ UNCHANGED <<now, isRunning, lastExecutionTime, executionHistory, oracleHistory,
                   eModeHistory, returned, lastTerminalAt, calcVars,
                   monVars, selVars, priceVars, scanVars, paramVars, reserveVars, exited>>

----------------------------------------------------------------------------
(* The other execution entry points, called by the embedding program: the  *)
(* two strategies of the StrategyManager, then the execute() of the two     *)
(* stand-alone strategy objects                                              *)

\* StrategyManager.oracleDelayStrategy()
CallOracleDelayStrategy ==
    Budget(1) /\ Begin(Requested(TaskOf("oracleDelayStrategy", "positions")))

\* StrategyManager.eModeStrategy()
CallEModeStrategy ==
    Budget(1) /\ Begin(Requested(TaskOf("eModeStrategy", "positions")))

\* OracleDelayStrategy.execute()
CallOracleExecute ==
    Budget(1) /\ Begin(Requested(TaskOf("oracleExecute", "positions")))

\* EModeStrategy.execute()
CallEModeExecute ==
    Budget(1) /\ Begin(Requested(TaskOf("eModeExecute", "positions")))

\* getLiquidatablePositions and the estimates have been read: the invocation
\* goes on to execute its candidates, or ends when there is none (an
\* exception while scanning ends it the same way, in every entry point)
Positions(r) ==
    /\ r.pc = "positions"
    /\ \E cands \in CandidateQueues(r.entry) :
        IF cands = <<>>
        THEN EndWithout(r)
        ELSE /\ Budget(Len(cands))
             /\ Step(r, [r EXCEPT !.queue = cands, !.pc = "gas"])

----------------------------------------------------------------------------
(* Liquidator.executeLiquidation, one action per await *)

\* await provider.getGasPrice() and the ceiling check; 0 stands for a failed read
GasRead(r) ==
    /\ r.pc = "gas"
    /\ \E g \in AttemptGasPrices \cup {0} :
        IF g = 0 THEN Finish(r, "exception", catchExecution(ThrownMessage))
        ELSE IF gasPriceTooHigh(g)
        THEN FinishAs(r, [r EXCEPT !.gas = g], "gasHigh", Returned(gasTooHighResult))
        ELSE Step(r, [r EXCEPT !.pc = "send", !.gas = g])

\* await pool.flashLoan(...): the transaction is sent, or sending throws
Send(r) ==
    /\ r.pc = "send"
    /\ \E ok \in BOOLEAN :
        IF ok THEN Step(r, [r EXCEPT !.pc = "wait"])
        ELSE Finish(r, "exception", catchExecution(ThrownMessage))

\* await tx.wait(1): the receipt arrives with status 1 or 0, or waiting throws
Settle(r) ==
    /\ r.pc = "wait"
    /\ \E o \in {"status1", "status0", "exception"} :
        CASE o = "status1" -> Finish(r, o, Returned(receiptResult(1)))
          [] o = "status0" -> Finish(r, o, Returned(receiptResult(0)))
          [] o = "exception" -> Finish(r, o, catchExecution(ThrownMessage))

----------------------------------------------------------------------------
(* Time and the specification of the StrategyManager: its monitoring loop  *)
(* and its two strategies, all executing through executeLiquidation          *)

Tick ==
    /\ now < MaxTime
    /\ now' = now + 1
    /\ UNCHANGED <<isRunning, timers, lastExecutionTime, executionHistory, oracleHistory,
                   eModeHistory, tasks, returned, lastTerminalAt, calcVars,
                   monVars, selVars, priceVars, scanVars, paramVars, reserveVars, exited>>

Init ==
    /\ OrchIdle
    /\ SideIdle
    /\ calcIn = [user |-> "u1", healthFactor |-> PositionOf["u1"].healthFactor,
                 eModeCategoryId |-> PositionOf["u1"].eModeCategoryId,
                 amount |-> PositionOf["u1"].amount, bonus |-> PositionOf["u1"].bonus,
                 debtPrice |-> OraclePrices.debt,
                 collateralPrice |-> OraclePrices.collateral,
                 ethPrice |-> OraclePrices.native, gasPrice |-> maxGasPriceGwei,
                 debtDecimals |-> 0, collateralDecimals |-> 0]
    /\ calcOut = <<>>

Next ==
    \/ Start
    \/ Stop
    \/ TimerFire
    \/ CallOracleDelayStrategy
    \/ CallEModeStrategy
    \/ Tick
    \/ \E r \in TaskSet : StartScanDone(r)
    \/ \E r \in TaskSet : CycleScanDone(r)
    \/ \E r \in TaskSet : Positions(r)
    \/ \E r \in TaskSet : GasRead(r)
    \/ \E r \in TaskSet : Send(r)
    \/ \E r \in TaskSet : Settle(r)

Spec == Init /\ [][Next]_vars

----------------------------------------------------------------------------
(* The program main() starts: the StrategyManager's monitoring loop alone,  *)
(* until a signal ends the process                                           *)

\* the SIGINT and SIGTERM handlers: strategyManager.stop(), then
\* process.exit(0); nothing of the process runs afterwards
Shutdown ==
    /\ ~exited
    /\ isRunning' = FALSE
    /\ exited' = TRUE
    /\ UNCHANGED <<now, timers, lastExecutionTime, executionHistory, oracleHistory,
                   eModeHistory, tasks, returned, lastTerminalAt, calcVars,
                   monVars, selVars, priceVars, scanVars, paramVars, reserveVars>>

LoopNext ==
    \/ ~exited /\ Start
    \/ ~exited /\ Stop
    \/ ~exited /\ TimerFire
    \/ ~exited /\ Tick
    \/ ~exited /\ \E r \in TaskSet : StartScanDone(r)
    \/ ~exited /\ \E r \in TaskSet : CycleScanDone(r)
    \/ ~exited /\ \E r \in TaskSet : Positions(r)
    \/ ~exited /\ \E r \in TaskSet : GasRead(r)
    \/ ~exited /\ \E r \in TaskSet : Send(r)
    \/ ~exited /\ \E r \in TaskSet : Settle(r)
    \/ Shutdown

LoopSpec == Init /\ [][LoopNext]_vars

\* time passes, and a timer that is due fires
LoopFairness ==
    /\ WF_vars(~exited /\ Tick)
    /\ WF_vars(~exited /\ TimerFire)

LoopLiveSpec == LoopSpec /\ LoopFairness

----------------------------------------------------------------------------
(* Liquidator.executeDirectLiquidation, one action per await *)

\* the balances the wallet can hold when debtToCover is to be paid
BalancesFor(debtToCover) == {debtToCover - 1, debtToCover}

\* await debtToken.balanceOf(wallet) and the balance check
BalanceRead(r) ==
    /\ r.pc = "balance"
    /\ \E ok \in BOOLEAN :
       \E b \in BalancesFor(r.queue[1].debtToCover) :
        IF ~ok THEN Finish(r, "exception", catchExecution(ThrownMessage))
        ELSE IF insufficientBalance(b, r.queue[1].debtToCover)
        THEN FinishAs(r, [r EXCEPT !.bal = b], "noBalance",
                      Returned(insufficientBalanceResult))
        ELSE Step(r, [r EXCEPT !.pc = "approve", !.bal = b])

\* await debtToken.approve(pool, debtToCover): the approval is sent, or
\* sending throws
Approve(r) ==
    /\ r.pc = "approve"
    /\ \E ok \in BOOLEAN :
        IF ok THEN Step(r, [r EXCEPT !.pc = "approveWait"])
        ELSE Finish(r, "exception", catchExecution(ThrownMessage))

\* await approveTx.wait(1)
ApproveWait(r) ==
    /\ r.pc = "approveWait"
    /\ \E ok \in BOOLEAN :
        IF ok THEN Step(r, [r EXCEPT !.pc = "directGas"])
        ELSE Finish(r, "exception", catchExecution(ThrownMessage))

\* gasPrice: await provider.getGasPrice(), an argument of liquidationCall;
\* 0 stands for a failed read
DirectGasRead(r) ==
    /\ r.pc = "directGas"
    /\ \E g \in AttemptGasPrices \cup {0} :
        IF g = 0 THEN Finish(r, "exception", catchExecution(ThrownMessage))
        ELSE Step(r, [r EXCEPT !.pc = "directSend", !.gas = g])

\* await pool.liquidationCall(...): the transaction is sent, or sending throws
DirectSend(r) ==
    /\ r.pc = "directSend"
    /\ \E ok \in BOOLEAN :
        IF ok THEN Step(r, [r EXCEPT !.pc = "directWait"])
        ELSE Finish(r, "exception", catchExecution(ThrownMessage))

\* await tx.wait(1): the receipt arrives with status 1 or 0, or waiting throws
DirectSettle(r) ==
    /\ r.pc = "directWait"
    /\ \E o \in {"status1", "status0", "exception"} :
        CASE o = "status1" -> Finish(r, o, Returned(receiptResult(1)))
          [] o = "status0" -> Finish(r, o, Returned(receiptResult(0)))
          [] o = "exception" -> Finish(r, o, catchExecution(ThrownMessage))

----------------------------------------------------------------------------
(* The Liquidator under its other callers: the stand-alone strategy objects *)
(* and direct calls of its two execution methods with an estimate           *)

\* the estimate a caller passes: the one of the first position
CallerEstimates == {EstimateOf(Users[1], rd) : rd \in PlainReads}

\* liquidator.executeLiquidation(calculation)
CallFlash ==
    \E e \in CallerEstimates :
        Budget(1) /\ Begin([TaskOf("flash", "gas") EXCEPT !.queue = <<e>>])

\* liquidator.executeDirectLiquidation(calculation)
CallDirect ==
    \E e \in CallerEstimates :
        Budget(1) /\ Begin([TaskOf("direct", "balance") EXCEPT !.queue = <<e>>])

LiqNext ==
    \/ CallOracleExecute
    \/ CallEModeExecute
    \/ CallFlash
    \/ CallDirect
    \/ \E r \in TaskSet : Positions(r)
    \/ \E r \in TaskSet : GasRead(r)
    \/ \E r \in TaskSet : Send(r)
    \/ \E r \in TaskSet : Settle(r)
    \/ \E r \in TaskSet : BalanceRead(r)
    \/ \E r \in TaskSet : Approve(r)
    \/ \E r \in TaskSet : ApproveWait(r)
    \/ \E r \in TaskSet : DirectGasRead(r)
    \/ \E r \in TaskSet : DirectSend(r)
    \/ \E r \in TaskSet : DirectSettle(r)

LiquidatorSpec == Init /\ [][LiqNext]_vars

----------------------------------------------------------------------------
(* An estimate computed and then executed: what every strategy does with   *)
(* the calculation it obtained, here over the estimate's inputs             *)

\* the inputs whose estimate goes on to be executed
SubmitInputs ==
    {in \in CalcInputs :
        /\ in.bonus = 0
        /\ in.gasPrice = maxGasPriceGwei
        /\ in.debtDecimals = 0 /\ in.collateralDecimals = 0
        /\ in.debtPrice = OraclePrices.debt
        /\ in.collateralPrice = OraclePrices.collateral}

SubmitInit ==
    /\ OrchIdle
    /\ SideIdle
    /\ calcIn \in SubmitInputs
    /\ calcOut = <<>>

\* The strategies that adjust the priority of an estimate they obtained
BoostingStrategies ==
    {"oracleDelayStrategy", "eModeStrategy", "oracleExecute", "eModeExecute"}

\* What a strategy makes of the estimate e, under the discrepancies dd and dc
\* of the debt and collateral assets: the estimate it keeps, if any
StrategyEstimate(entry, e, dd, dc) ==
    CASE entry = "oracleDelayStrategy" ->
            IF hasPriceDiscrepancy(dd) /\ hasPriceDiscrepancy(dc) /\ e.profitable
            THEN <<Boost(e, 3, 2)>> ELSE <<>>
      [] entry = "eModeStrategy" ->
            IF e.eModeCategoryId # 0 /\ e.profitable
            THEN <<Boost(e, 6, 5)>> ELSE <<>>
      [] entry = "oracleExecute" ->
            IF /\ dd # 0 /\ dc # 0
               /\ (dd >= minPriceDiscrepancyPercent \/ dc >= minPriceDiscrepancyPercent)
               /\ e.profitable
            THEN <<Boost(e, 10000 + dd + dc, 10000)>> ELSE <<>>
      [] entry = "eModeExecute" ->
            IF e.eModeCategoryId # 0 /\ e.profitable
            THEN <<Boost(e, 6, 5)>> ELSE <<>>

\* if (profitCalculation.profitable) profitCalculation.executionPriority *= ...
StrategyBoost ==
    /\ calcOut = <<calculateLiquidationProfit(calcIn)>>
    /\ \E entry \in BoostingStrategies, dd \in Discrepancies, dc \in Discrepancies :
        /\ StrategyEstimate(entry, calcOut[1], dd, dc) # <<>>
        /\ calcOut' = StrategyEstimate(entry, calcOut[1], dd, dc)
    /\ UNCHANGED <<calcIn, orchVars, monVars, selVars, priceVars, scanVars, paramVars, reserveVars>>

\* await liquidator.executeLiquidation(profitCalculation)
SubmitEstimate ==
    /\ calcOut # <<>>
    /\ Budget(1)
    /\ Begin([TaskOf("flash", "gas") EXCEPT !.queue = calcOut])

SubmitNext ==
    \/ Estimate
    \/ StrategyBoost
    \/ SubmitEstimate
    \/ \E r \in TaskSet : GasRead(r)
    \/ \E r \in TaskSet : Send(r)
    \/ \E r \in TaskSet : Settle(r)

SubmitSpec == SubmitInit /\ [][SubmitNext]_vars

----------------------------------------------------------------------------
(* HealthFactorMonitor: scanForLowHealthFactors and getLiquidatablePositions, *)
(* one action per await, while the pool's health factors move               *)

\* the address lists a scan is called with
AddressSeqs ==
    {<<>>} \cup {<<a>> : a \in Addresses}
        \cup {pair \in Addresses \X Addresses : pair[1] # pair[2]}

\* a variant that also takes a health factor at the watch threshold
belowWatchInclusive(hf) == hf <= healthFactorThreshold

\* userData.healthFactor.lt(parseUnits(config.healthFactorThreshold.toString(), 18))
belowWatch(hf) == hf < healthFactorThreshold

\* userData.healthFactor.lt(config.healthFactorLiquidationThreshold)
belowLiquidation(hf) == hf < healthFactorLiquidationThreshold

\* Array.from(this.monitoredUsers.keys())
Keys(users) == [i \in 1..Len(users) |-> users[i].user]

MonitoredAddresses == {monitoredUsers[i].user : i \in DOMAIN monitoredUsers}

\* this.monitoredUsers.set(address, detailedPosition)
setUser(users, position) ==
    IF \E i \in DOMAIN users : users[i].user = position.user
    THEN [i \in DOMAIN users |->
             IF users[i].user = position.user THEN position ELSE users[i]]
    ELSE Append(users, position)

\* a variant that forgets the address it re-read
refreshRemoving(users, address, hf) ==
    SelectSeq(users, LAMBDA p : p.user # address)

\* currentTarget = this.monitoredUsers.get(address);
\* currentTarget.healthFactor = userData.healthFactor
refreshHealthFactor(users, address, hf) ==
    [i \in DOMAIN users |->
        IF users[i].user = address THEN [users[i] EXCEPT !.healthFactor = hf]
        ELSE users[i]]

\* getUserDetailedPosition(address): its health factor is the one the pool
\* reports when the call reads the account data
DetailedPosition(address) == [user |-> address, healthFactor |-> chainHf[address]]

\* a variant in which a failed read ends the loop over the addresses
NextAddressAborting(call, read, outcome) ==
    [call EXCEPT !.pc = "read",
                 !.todo = IF outcome \in {"readFailed", "detailFailed"} THEN <<>> ELSE Tail(@),
                 !.read = 0,
                 !.log = Append(@, [user |-> Head(call.todo), read |-> read,
                                    outcome |-> outcome])]

\* the call goes on to the next address, having noted what it read for this
\* one (0 for a failed read) and what became of it
NextAddress(call, read, outcome) ==
    [call EXCEPT !.pc = "read", !.todo = Tail(@), !.read = 0,
                 !.log = Append(@, [user |-> Head(call.todo), read |-> read,
                                    outcome |-> outcome])]

MonitorFrame == UNCHANGED <<orchVars, calcVars, selVars, priceVars, scanVars, paramVars, reserveVars>>

\* the pool's health factor of an address changes
ChainMove ==
    /\ \E a \in Addresses, h \in HfChoices :
        /\ h # chainHf[a]
        /\ chainHf' = [chainHf EXCEPT ![a] = h]
    /\ UNCHANGED <<monitoredUsers, monitorCall, monitorOut>>
    /\ MonitorFrame

\* healthFactorMonitor.scanForLowHealthFactors(addresses)
CallScan ==
    /\ monitorCall.op = "idle"
    /\ \E addresses \in AddressSeqs :
        monitorCall' = [IdleCall EXCEPT !.op = "scanForLowHealthFactors", !.pc = "read",
                                        !.todo = addresses,
                                        !.before = MonitoredAddresses]
    /\ monitorOut' = <<>>
    /\ UNCHANGED <<chainHf, monitoredUsers>>
    /\ MonitorFrame

\* await this.getUserAccountData(address) and the threshold test; a failed
\* read is caught and the loop goes on
ScanRead ==
    /\ monitorCall.op = "scanForLowHealthFactors"
    /\ monitorCall.pc = "read"
    /\ monitorCall.todo # <<>>
    /\ \E ok \in BOOLEAN :
        LET hf == chainHf[Head(monitorCall.todo)] IN
        monitorCall' =
            IF ~ok THEN NextAddress(monitorCall, 0, "readFailed")
            ELSE IF belowWatch(hf)
            THEN [monitorCall EXCEPT !.pc = "detail", !.read = hf]
            ELSE NextAddress(monitorCall, hf, "notBelow")
    /\ UNCHANGED <<chainHf, monitoredUsers, monitorOut>>
    /\ MonitorFrame

\* await this.getUserDetailedPosition(address); targets.push and
\* monitoredUsers.set, or the catch
ScanDetail ==
    /\ monitorCall.op = "scanForLowHealthFactors"
    /\ monitorCall.pc = "detail"
    /\ \E ok \in BOOLEAN :
        LET position == DetailedPosition(Head(monitorCall.todo)) IN
        IF ok
        THEN /\ monitorCall' = [NextAddress(monitorCall, monitorCall.read, "returned")
                                   EXCEPT !.out = Append(@, position)]
             /\ monitoredUsers' = setUser(monitoredUsers, position)
        ELSE /\ monitorCall' = NextAddress(monitorCall, monitorCall.read, "detailFailed")
             /\ UNCHANGED monitoredUsers
    /\ UNCHANGED <<chainHf, monitorOut>>
    /\ MonitorFrame

\* return of either call: the list built so far goes to the caller
MonitorReturn ==
    /\ monitorCall.pc = "read"
    /\ monitorCall.todo = <<>>
    /\ monitorOut' = <<[op |-> monitorCall.op, out |-> monitorCall.out, log |-> monitorCall.log,
                        before |-> monitorCall.before]>>
    /\ monitorCall' = IdleCall
    /\ UNCHANGED <<chainHf, monitoredUsers>>
    /\ MonitorFrame

\* return targets
ScanReturn ==
    /\ monitorCall.op = "scanForLowHealthFactors"
    /\ MonitorReturn

\* healthFactorMonitor.getLiquidatablePositions()
CallLiquidatable ==
    /\ monitorCall.op = "idle"
    /\ monitorCall' = [IdleCall EXCEPT !.op = "getLiquidatablePositions", !.pc = "read",
                                       !.todo = Keys(monitoredUsers),
                                       !.before = MonitoredAddresses]
    /\ monitorOut' = <<>>
    /\ UNCHANGED <<chainHf, monitoredUsers>>
    /\ MonitorFrame

\* await this.getUserAccountData(address), the stored health factor updated,
\* and the liquidation threshold test
LiquidatableRead ==
    /\ monitorCall.op = "getLiquidatablePositions"
    /\ monitorCall.pc = "read"
    /\ monitorCall.todo # <<>>
    /\ \E ok \in BOOLEAN :
        LET address == Head(monitorCall.todo)
            hf == chainHf[address] IN
        IF ~ok
        THEN /\ monitorCall' = NextAddress(monitorCall, 0, "readFailed")
             /\ UNCHANGED monitoredUsers
        ELSE /\ monitoredUsers' = refreshHealthFactor(monitoredUsers, address, hf)
             /\ monitorCall' =
                    IF belowLiquidation(hf)
                    THEN [monitorCall EXCEPT !.pc = "detail", !.read = hf]
                    ELSE NextAddress(monitorCall, hf, "notBelow")
    /\ UNCHANGED <<chainHf, monitorOut>>
    /\ MonitorFrame

\* await this.getUserDetailedPosition(address); liquidatablePositions.push, or
\* the catch
LiquidatableDetail ==
    /\ monitorCall.op = "getLiquidatablePositions"
    /\ monitorCall.pc = "detail"
    /\ \E ok \in BOOLEAN :
        monitorCall' =
            IF ok
            THEN [NextAddress(monitorCall, monitorCall.read, "returned")
                     EXCEPT !.out = Append(@, DetailedPosition(Head(monitorCall.todo)))]
            ELSE NextAddress(monitorCall, monitorCall.read, "detailFailed")
    /\ UNCHANGED <<chainHf, monitoredUsers, monitorOut>>
    /\ MonitorFrame

\* return liquidatablePositions
LiquidatableReturn ==
    /\ monitorCall.op = "getLiquidatablePositions"
    /\ MonitorReturn

MonitorInit ==
    /\ OrchIdle
    /\ MonitorIdle
    /\ chainHf \in [Addresses -> HfChoices]
    /\ selection = IdleSelection
    /\ PriceIdle
    /\ ScanIdle
    /\ ParamIdle
    /\ ReserveIdle
    /\ calcIn = <<>>
    /\ calcOut = <<>>

MonitorNext ==
    \/ ChainMove
    \/ CallScan
    \/ ScanRead
    \/ ScanDetail
    \/ ScanReturn
    \/ CallLiquidatable
    \/ LiquidatableRead
    \/ LiquidatableDetail
    \/ LiquidatableReturn

MonitorSpec == MonitorInit /\ [][MonitorNext]_vars

\* The monitoring loop calls both methods in every cycle and each call runs
\* to its return; the pool's health factors move as they please
MonitorFairness ==
    /\ SF_vars(CallScan)
    /\ SF_vars(CallLiquidatable)
    /\ WF_vars(ScanRead)
    /\ WF_vars(ScanDetail)
    /\ WF_vars(ScanReturn)
    /\ WF_vars(LiquidatableRead)
    /\ WF_vars(LiquidatableDetail)
    /\ WF_vars(LiquidatableReturn)

MonitorLiveSpec == MonitorSpec /\ MonitorFairness

----------------------------------------------------------------------------
(* StrategyManager.executeStrategy past the cooldown check: the estimates   *)
(* of the liquidatable positions, one await each, and the choice of the best *)

\* the health factors of the positions getLiquidatablePositions hands over
SelectHfs == {closeFactorHfThreshold - 1, healthFactorLiquidationThreshold - 1}

\* what getLiquidatablePositions returned to executeStrategy
LiquidatableSeqs ==
    {<<>>}
        \cup {<<[user |-> a, healthFactor |-> h]>> : a \in Addresses, h \in SelectHfs}
        \cup {<<[user |-> pair[1], healthFactor |-> h1],
                [user |-> pair[2], healthFactor |-> h2]>> :
                 pair \in {q \in Addresses \X Addresses : q[1] # q[2]},
                 h1 \in SelectHfs, h2 \in SelectHfs}

\* liquidator.calculateLiquidationProfit(position, debtAsset, collateralAsset)
\* for the pair of a position, at the gas price it reads
EstimateFor(position, gasPrice) ==
    calculateLiquidationProfit(
        [user |-> position.user, healthFactor |-> position.healthFactor,
         eModeCategoryId |-> PositionOf[position.user].eModeCategoryId,
         amount |-> PositionOf[position.user].amount,
         bonus |-> PositionOf[position.user].bonus,
         debtPrice |-> OraclePrices.debt, collateralPrice |-> OraclePrices.collateral,
         ethPrice |-> OraclePrices.native, gasPrice |-> gasPrice,
         debtDecimals |-> 0, collateralDecimals |-> 0])

\* the gas prices behind the estimates that take part in the comparison
\* "profitCalculation.executionPriority > bestOpportunity.executionPriority":
\* each profitable estimate, with the provider.getGasPrice() it awaited itself
observedBy(estimate, gasPrice, observed) ==
    IF estimate.profitable THEN Append(observed, gasPrice) ELSE observed

SelectFrame == UNCHANGED <<orchVars, calcVars, monVars, priceVars, scanVars, paramVars, reserveVars>>

\* executeStrategy(): getLiquidatablePositions() has returned; an empty list
\* ends the call
CallExecuteStrategy ==
    /\ selection.pc \in {"idle", "done"}
    /\ \E positions \in LiquidatableSeqs :
        selection' =
            IF positions = <<>> THEN [IdleSelection EXCEPT !.pc = "done"]
            ELSE [IdleSelection EXCEPT !.pc = "estimate", !.positions = positions,
                                       !.todo = positions]
    /\ SelectFrame

\* await liquidator.calculateLiquidationProfit(...) for the next pair: the
\* estimate (gas price read inside) may replace bestOpportunity; when it
\* throws (gas price 0 here) executeStrategy's catch ends the call
SelectEstimate ==
    /\ selection.pc = "estimate"
    /\ selection.todo # <<>>
    /\ \E g \in GasPrices \cup {0} :
        selection' =
            IF g = 0
            THEN [selection EXCEPT !.pc = "done",
                                   !.failed = <<Head(selection.todo).user>>]
            ELSE [selection EXCEPT
                     !.todo = Tail(@),
                     !.best = bestOpportunity(<<EstimateFor(Head(selection.todo), g)>>,
                                              selection.best),
                     !.observed = observedBy(EstimateFor(Head(selection.todo), g), g, @)]
    /\ SelectFrame

\* if (bestOpportunity) await liquidator.executeLiquidation(bestOpportunity)
SelectExecute ==
    /\ selection.pc = "estimate"
    /\ selection.todo = <<>>
    /\ selection' = [selection EXCEPT !.pc = "done", !.chosen = selection.best]
    /\ SelectFrame

SelectInit ==
    /\ OrchIdle
    /\ SideIdle
    /\ calcIn = <<>>
    /\ calcOut = <<>>

SelectNext ==
    \/ CallExecuteStrategy
    \/ SelectEstimate
    \/ SelectExecute

SelectSpec == SelectInit /\ [][SelectNext]_vars

----------------------------------------------------------------------------
(* HealthFactorMonitor.getReserveInfo and the operations that call it:      *)
(* initialize, for every reserve of the list it has just loaded, and        *)
(* getUserDetailedPosition, for the reserves the user holds.  One action    *)
(* per await; the operations may overlap.                                    *)

MaxReads == 3

\* what pool.getReservesList() returns
ListedReserves == <<"WETH", "DAI">>

\* the reserves of the list a user can hold, in the order of the list
HeldReserves(list) ==
    {<<>>} \cup {<<list[i]>> : i \in DOMAIN list}
           \cup {<<list[p[1]], list[p[2]]>> :
                     p \in {q \in (DOMAIN list) \X (DOMAIN list) : q[1] < q[2]}}

\* the info getReserveInfo builds from the configuration it read
ReserveInfo(asset) == [asset |-> asset, liquidationBonus |-> defaultLiquidationBonusBps]

ReserveFrame == UNCHANGED <<orchVars, calcVars, monVars, selVars, priceVars, scanVars, paramVars>>

\* this.reservesData.has(asset)
reserveCached(data, asset) == data[asset] # <<>>

\* the operation goes on with the reserves todo: getReserveInfo(asset) for
\* the first one returns the cached info, or finds none and calls
\* getReserveConfigurationData; with none left the operation returns
walkReserves(call, todo, data) ==
    IF todo = <<>>
    THEN [call EXCEPT !.pc = "idle", !.asset = None, !.todo = <<>>, !.ended = "returned"]
    ELSE IF reserveCached(data, Head(todo))
    THEN [call EXCEPT !.pc = "next", !.asset = None, !.todo = Tail(todo)]
    ELSE [call EXCEPT !.pc = "config", !.asset = Head(todo), !.todo = Tail(todo)]

\* the operation ends with the exception getReserveInfo rethrew
thrownBy(call) ==
    [call EXCEPT !.pc = "idle", !.asset = None, !.todo = <<>>, !.ended = "thrown"]

\* initialize() is called
CallInitialize ==
    /\ reserveCalls["initialize"].pc = "idle"
    /\ reserveCalls' = [reserveCalls EXCEPT !["initialize"] = [IdleReserveCall EXCEPT !.pc = "list"]]
    /\ UNCHANGED <<reservesList, reservesData, reserveReads>>
    /\ ReserveFrame

\* await pool.getReservesList(): the list is stored and the loop begins, or
\* the read fails and initialize throws
ReservesListRead ==
    /\ reserveCalls["initialize"].pc = "list"
    /\ \E ok \in BOOLEAN :
        IF ok
        THEN /\ reservesList' = ListedReserves
             /\ reserveCalls' =
                    [reserveCalls EXCEPT !["initialize"] = walkReserves(@, ListedReserves, reservesData)]
        ELSE /\ UNCHANGED reservesList
             /\ reserveCalls' = [reserveCalls EXCEPT !["initialize"] = thrownBy(@)]
    /\ UNCHANGED <<reservesData, reserveReads>>
    /\ ReserveFrame

\* getUserDetailedPosition(user) is called: it will ask for the reserves of
\* this.reservesList the user holds
CallGetUserDetailedPosition ==
    /\ reserveCalls["getUserDetailedPosition"].pc = "idle"
    /\ \E held \in HeldReserves(reservesList) :
        reserveCalls' =
            [reserveCalls EXCEPT !["getUserDetailedPosition"] =
                [IdleReserveCall EXCEPT !.pc = "next", !.todo = held]]
    /\ UNCHANGED <<reservesList, reservesData, reserveReads>>
    /\ ReserveFrame

\* the operation comes to its next reserve and calls getReserveInfo
NextReserve(c) ==
    /\ reserveCalls[c].pc = "next"
    /\ reserveCalls' = [reserveCalls EXCEPT ![c] = walkReserves(@, @.todo, reservesData)]
    /\ UNCHANGED <<reservesList, reservesData, reserveReads>>
    /\ ReserveFrame

\* await poolDataProvider.getReserveConfigurationData(asset): the data
\* source serves the configuration, or the read fails and the catch rethrows
ConfigurationRead(c) ==
    /\ reserveCalls[c].pc = "config"
    /\ LET asset == reserveCalls[c].asset IN
       \E ok \in BOOLEAN :
        IF ok
        THEN /\ reserveReads[asset].served < MaxReads
             /\ reserveReads' =
                    [reserveReads EXCEPT ![asset] =
                        [served |-> @.served + 1,
                         afterSuccess |-> @.afterSuccess
                            + (IF reservesData[asset] # <<>> THEN 1 ELSE 0)]]
             /\ reserveCalls' = [reserveCalls EXCEPT ![c].pc = "symbol"]
        ELSE /\ UNCHANGED reserveReads
             /\ reserveCalls' = [reserveCalls EXCEPT ![c] = thrownBy(@)]
    /\ UNCHANGED <<reservesList, reservesData>>
    /\ ReserveFrame

\* await token.symbol()
SymbolRead(c) ==
    /\ reserveCalls[c].pc = "symbol"
    /\ \E ok \in BOOLEAN :
        reserveCalls' = [reserveCalls EXCEPT ![c] = IF ok THEN [@ EXCEPT !.pc = "decimals"]
                                                   ELSE thrownBy(@)]
    /\ UNCHANGED <<reservesList, reservesData, reserveReads>>
    /\ ReserveFrame

\* await token.decimals(), then this.reservesData.set(asset, reserveInfo)
\* and the return to the operation, which goes on with its next reserve
DecimalsRead(c) ==
    /\ reserveCalls[c].pc = "decimals"
    /\ LET asset == reserveCalls[c].asset IN
       \E ok \in BOOLEAN :
        IF ok
        THEN /\ reservesData' = [reservesData EXCEPT ![asset] = <<ReserveInfo(asset)>>]
             /\ reserveCalls' = [reserveCalls EXCEPT ![c] = [@ EXCEPT !.pc = "next", !.asset = None]]
        ELSE /\ UNCHANGED reservesData
             /\ reserveCalls' = [reserveCalls EXCEPT ![c] = thrownBy(@)]
    /\ UNCHANGED <<reservesList, reserveReads>>
    /\ ReserveFrame

ReserveInit ==
    /\ OrchIdle
    /\ SideIdle
    /\ calcIn = <<>>
    /\ calcOut = <<>>

ReserveNext ==
    \/ CallInitialize
    \/ ReservesListRead
    \/ CallGetUserDetailedPosition
    \/ \E c \in ReserveCallers : NextReserve(c)
    \/ \E c \in ReserveCallers : ConfigurationRead(c)
    \/ \E c \in ReserveCallers : SymbolRead(c)
    \/ \E c \in ReserveCallers : DecimalsRead(c)

ReserveSpec == ReserveInit /\ [][ReserveNext]_vars

----------------------------------------------------------------------------
(* The liquidation parameters of the flash-loan path: executeLiquidation    *)
(* encodes them with defaultAbiCoder (core/liquidator.ts), the pool hands   *)
(* the bytes to FlashLoanLiquidator.executeOperation, which decodes them    *)
(* and calls POOL.liquidationCall (contracts/FlashLoanLiquidator.sol).      *)
(* The encoding of a tuple of static types is one 32-byte word per field,   *)
(* in the order of the type list, with no trace of the types: a word is     *)
(* modelled as the number it holds.                                         *)

\* the addresses that occur as assets and users, with the number each is
ParamAssets == {"WETH", "DAI", "USDC"}
ParamUsers == {"u1", "u2"}
AddressWord == [WETH |-> 11, DAI |-> 12, USDC |-> 13, u1 |-> 21, u2 |-> 22]

\* the amounts of debt to cover
ParamAmounts == {0, 1, 3800, 5700}

\* one word of an encoded value of the type
wordOf(type, value) ==
    CASE type = "address" -> AddressWord[value]
      [] type = "uint256" -> value
      [] type = "bool" -> IF value THEN 1 ELSE 0

\* the value of the type a word holds
valueOf(type, word) ==
    CASE type = "address" -> CHOOSE a \in DOMAIN AddressWord : AddressWord[a] = word
      [] type = "uint256" -> word
      [] type = "bool" -> word # 0

\* ethers.utils.defaultAbiCoder.encode(types, values)
abiEncode(types, values) == [i \in DOMAIN types |-> wordOf(types[i], values[i])]

\* abi.decode(params, (types))
abiDecode(params, types) == [i \in DOMAIN types |-> valueOf(types[i], params[i])]

\* ['address', 'address', 'address', 'uint256', 'bool'] in executeLiquidation
encodedTypes == <<"address", "address", "address", "uint256", "bool">>

\* the values executeLiquidation encodes: the last is the literal false
encodedValues(calculation) ==
    <<calculation.collateralAsset, calculation.debtAsset, calculation.user,
      calculation.debtToCover, FALSE>>

\* (address, address, address, uint256, bool) in executeOperation
decodedTypes == <<"address", "address", "address", "uint256", "bool">>

\* the decoding that takes the first two words the other way round
decodedDebtFirst(params) ==
    LET d == abiDecode(params, decodedTypes)
    IN  [collateralAsset |-> d[2], debtAsset |-> d[1], user |-> d[3],
         debtToCover |-> d[4], receiveAToken |-> d[5]]

\* the tuple executeOperation decodes, by the names it gives the fields
decodedParams(params) ==
    LET d == abiDecode(params, decodedTypes)
    IN  [collateralAsset |-> d[1], debtAsset |-> d[2], user |-> d[3],
         debtToCover |-> d[4], receiveAToken |-> d[5]]

\* the calculations executeLiquidation can be given
FlashCalculations ==
    [collateralAsset : ParamAssets, debtAsset : ParamAssets, user : ParamUsers,
     debtToCover : ParamAmounts]

ParamFrame == UNCHANGED <<orchVars, calcVars, monVars, selVars, priceVars, scanVars, reserveVars>>

\* executeLiquidation(calculation) up to the flashLoan call: the params
EncodeParams ==
    /\ flashCalculation = <<>>
    /\ \E calculation \in FlashCalculations :
        /\ flashCalculation' = <<calculation>>
        /\ flashParams' = <<abiEncode(encodedTypes, encodedValues(calculation))>>
    /\ UNCHANGED poolLiquidationCall
    /\ ParamFrame

\* executeOperation(assets, amounts, premiums, initiator, params): decode,
\* then POOL.liquidationCall with the five decoded values in this order
ExecuteOperation ==
    /\ flashParams # <<>>
    /\ poolLiquidationCall = <<>>
    /\ poolLiquidationCall' = <<decodedParams(flashParams[1])>>
    /\ UNCHANGED <<flashCalculation, flashParams>>
    /\ ParamFrame

\* the transaction is over; the next liquidation may be executed
NextLiquidation ==
    /\ poolLiquidationCall # <<>>
    /\ flashCalculation' = <<>>
    /\ flashParams' = <<>>
    /\ poolLiquidationCall' = <<>>
    /\ ParamFrame

ParamInit ==
    /\ OrchIdle
    /\ SideIdle
    /\ calcIn = <<>>
    /\ calcOut = <<>>

ParamNext ==
    \/ EncodeParams
    \/ ExecuteOperation
    \/ NextLiquidation

ParamSpec == ParamInit /\ [][ParamNext]_vars

-----------------------------------------------------------------------------
(* The price monitor: services/priceMonitor.ts.  Prices are in cents; a
   discrepancy is in hundredths of a percent, the unit of
   priceDifferenceThreshold.  An absent value (undefined) is the empty
   sequence, a present one a sequence of one element.  The prices are chosen
   so that the floating point discrepancy is the exact one: 0, 0.02 and 3
   percent. *)

\* what the canonical oracle may answer
AavePrices == {250000, 250050, 257500}
\* what getExternalPrice may answer: undefined (no mapping, no price in the
\* response, a failed request) or a price
ExternalReads == {<<>>, <<250000>>}
\* what the quoter may answer: a failed call or an amount
DexReads == {<<>>, <<1>>}

\* lines 107-116: defined only when both prices are there and the external
\* one is positive
discrepancyPercentageOf(aave, external) ==
    IF external # <<>> /\ external[1] > 0
    THEN <<(Abs(aave - external[1]) * 10000) \div external[1]>>
    ELSE <<>>

\* the PriceData built at lines 119-126
priceDataOf(asset, aave, dex, external, at) ==
    [assetAddress |-> asset, aaveOraclePrice |-> aave, dexPrice |-> dex,
     externalApiPrice |-> external, timestamp |-> at,
     discrepancyPercentage |-> discrepancyPercentageOf(aave, external)]

\* a variant that completes a new quote with the fields of the one it replaces
cacheMerge(cache, data) ==
    LET old == cache[data.assetAddress]
    IN  IF old = <<>> \/ data.externalApiPrice # <<>>
        THEN [cache EXCEPT ![data.assetAddress] = <<data>>]
        ELSE [cache EXCEPT ![data.assetAddress] =
                <<[data EXCEPT !.externalApiPrice = old[1].externalApiPrice,
                               !.discrepancyPercentage = old[1].discrepancyPercentage]>>]

\* this.priceCache.set(assetAddress, priceData)
cacheSet(cache, data) == [cache EXCEPT ![data.assetAddress] = <<data>>]

\* hasPriceDiscrepancy(assetAddress) over the cache
cachedDiscrepancy(cache, asset) ==
    /\ cache[asset] # <<>>
    /\ cache[asset][1].discrepancyPercentage # <<>>
    /\ hasPriceDiscrepancy(cache[asset][1].discrepancyPercentage[1])

PriceFrame == UNCHANGED <<isRunning, timers, lastExecutionTime, executionHistory, oracleHistory, eModeHistory, tasks, returned, lastTerminalAt, calcVars, monVars, selVars, scanVars, paramVars, reserveVars, exited>>

\* getPriceData(assetAddress) is called
CallGetPriceData ==
    /\ priceCall.pc = "idle"
    /\ \E a \in PriceAssets :
        priceCall' = [IdlePriceCall EXCEPT !.pc = "oracle", !.asset = a]
    /\ priceOut' = <<>>
    /\ UNCHANGED <<now, priceCache, priceAsked>>
    /\ PriceFrame

\* await priceOracle.getAssetPrice: a failure (read 0 here) is logged and
\* thrown again by the outer catch; the quoter is asked for every asset but WETH
OracleRead ==
    /\ priceCall.pc = "oracle"
    /\ \E p \in AavePrices \cup {0} :
        IF p = 0
        THEN /\ priceOut' = <<[kind |-> "thrown", asset |-> priceCall.asset, external |-> <<>>,
                                superseded |-> priceCache[priceCall.asset]]>>
             /\ priceCall' = IdlePriceCall
        ELSE /\ priceCall' = [priceCall EXCEPT !.aave = p,
                                !.pc = IF priceCall.asset = "WETH" THEN "external" ELSE "dex"]
             /\ UNCHANGED priceOut
    /\ UNCHANGED <<now, priceCache, priceAsked>>
    /\ PriceFrame

\* await provider.call to the quoter, inside its own try
DexRead ==
    /\ priceCall.pc = "dex"
    /\ \E q \in DexReads : priceCall' = [priceCall EXCEPT !.dex = q, !.pc = "external"]
    /\ UNCHANGED <<now, priceCache, priceOut, priceAsked>>
    /\ PriceFrame

\* await getExternalPrice, inside its own try; then the quote is built,
\* cached and returned.  priceOut keeps what the external source answered and
\* the quote that was cached before
ExternalRead ==
    /\ priceCall.pc = "external"
    /\ \E x \in ExternalReads :
        LET data == priceDataOf(priceCall.asset, priceCall.aave, priceCall.dex, x, now)
        IN  /\ priceCache' = cacheSet(priceCache, data)
            /\ priceOut' = <<[kind |-> "returned", asset |-> priceCall.asset, external |-> x,
                               superseded |-> priceCache[priceCall.asset]]>>
    /\ priceCall' = IdlePriceCall
    /\ UNCHANGED <<now, priceAsked>>
    /\ PriceFrame

\* hasPriceDiscrepancy(assetAddress) is called, between any two steps
CallHasPriceDiscrepancy ==
    /\ \E a \in PriceAssets :
        priceAsked' = <<[asset |-> a, answer |-> cachedDiscrepancy(priceCache, a)]>>
    /\ UNCHANGED <<now, priceCache, priceCall, priceOut>>
    /\ PriceFrame

\* the orchestrator at rest, the clock at its origin
PriceInit ==
    /\ now = 0
    /\ isRunning = FALSE
    /\ timers = <<>>
    /\ lastExecutionTime = 0
    /\ executionHistory = <<>>
    /\ oracleHistory = <<>>
    /\ eModeHistory = <<>>
    /\ tasks = EmptyBag
    /\ returned = <<>>
    /\ lastTerminalAt = 0
    /\ exited = FALSE
    /\ SideIdle
    /\ calcIn = <<>>
    /\ calcOut = <<>>

PriceNext ==
    \/ CallGetPriceData
    \/ OracleRead
    \/ DexRead
    \/ ExternalRead
    \/ CallHasPriceDiscrepancy
    \/ Tick

PriceSpec == PriceInit /\ [][PriceNext]_vars

----------------------------------------------------------------------------
(* The strategy scans alone: OracleDelayStrategy.scan and EModeStrategy.scan
   over the positions getLiquidatablePositions hands them, one pair each, and
   the discrepancies getPriceData reports for the two assets of the pair. *)

MaxPairs == 3

\* the positions: each user's E-Mode category
ScanCategory == [u1 |-> 0, u2 |-> 1, u3 |-> 2]
ScanUsers == DOMAIN ScanCategory
\* debts: one too small to be worth a liquidation, and two that are
ScanAmounts == {40, 4000, 6000}
\* discrepancies: none (or nil), below, at and above the strategy's minimum
ScanDiscrepancies ==
    {0, minPriceDiscrepancyPercent - 100, minPriceDiscrepancyPercent,
     minPriceDiscrepancyPercent + 100}

ScanItems(u, amounts, discrepancies) ==
    [in : [user : {u}, healthFactor : {closeFactorHfThreshold - 5},
           eModeCategoryId : {ScanCategory[u]}, amount : amounts,
           bonus : {defaultLiquidationBonusBps},
           debtPrice : {OraclePrices.debt}, collateralPrice : {OraclePrices.collateral},
           ethPrice : {OraclePrices.native}, gasPrice : {maxGasPriceGwei},
           debtDecimals : {0}, collateralDecimals : {0}],
     dd : discrepancies, dc : discrepancies]

\* the strategies that scan
ScanStrategies == {"oracleDelay", "eMode"}

\* a scan that has read nothing yet
EmptyScan(strategy) == [strategy |-> strategy, items |-> <<>>]

ScanFrame == UNCHANGED <<orchVars, calcVars, monVars, selVars, priceVars, paramVars, reserveVars>>

\* the scan comes to the next position of getLiquidatablePositions() and
\* reads the prices of its pair; the E-Mode scan makes no use of the
\* discrepancies, and is given every debt instead
ReadPair ==
    /\ scanOut = <<>>
    /\ Len(scanIn.items) < MaxPairs
    /\ \E u \in ScanUsers :
        /\ \A i \in DOMAIN scanIn.items : scanIn.items[i].in.user # u
        /\ \E it \in IF scanIn.strategy = "eMode"
                       THEN ScanItems(u, ScanAmounts, {0})
                       ELSE ScanItems(u, ScanAmounts \ {6000}, ScanDiscrepancies) :
            scanIn' = [scanIn EXCEPT !.items = Append(@, it)]
    /\ UNCHANGED scanOut
    /\ ScanFrame

\* OracleDelayStrategy.scan() returns
OracleDelayScan ==
    /\ scanOut = <<>>
    /\ scanIn.strategy = "oracleDelay"
    /\ scanOut' = <<SortDesc(oracleScanned(scanIn.items))>>
    /\ UNCHANGED scanIn
    /\ ScanFrame

\* EModeStrategy.scan() returns
EModeScan ==
    /\ scanOut = <<>>
    /\ scanIn.strategy = "eMode"
    /\ scanOut' = <<SortDesc(eModeScanned(scanIn.items))>>
    /\ UNCHANGED scanIn
    /\ ScanFrame

\* the next scan starts
NextScan ==
    /\ scanOut # <<>>
    /\ \E strategy \in ScanStrategies : scanIn' = EmptyScan(strategy)
    /\ scanOut' = <<>>
    /\ ScanFrame

ScanInit ==
    /\ OrchIdle
    /\ MonitorIdle
    /\ chainHf = [a \in Addresses |-> healthFactorThreshold]
    /\ selection = IdleSelection
    /\ PriceIdle
    /\ calcIn = <<>>
    /\ calcOut = <<>>
    /\ scanIn \in {EmptyScan(strategy) : strategy \in ScanStrategies}
    /\ scanOut = <<>>
    /\ ParamIdle
    /\ ReserveIdle

ScanNext ==
    \/ ReadPair
    \/ OracleDelayScan
    \/ EModeScan
    \/ NextScan

ScanSpec == ScanInit /\ [][ScanNext]_vars

----------------------------------------------------------------------------
(* StrategyManager.oracleDelayStrategy and eModeStrategy, one invocation    *)
(* alone and pair by pair as the loops run: a pair is read and estimated,   *)
(* executed at once when it is very profitable, and the loops go on with    *)
(* the next pair unless the execution succeeded.  scanIn holds the pairs    *)
(* read so far, scanOut the estimates submitted so far.                     *)

\* debts: too small, profitable, and two very profitable ones
ManagerAmounts == {40, 1500, 4000, 6000}

ManagerStrategies == {"oracleDelayStrategy", "eModeStrategy"}

\* the invocation has read nothing yet
EmptyRun(strategy) == [strategy |-> strategy, items |-> <<>>, pc |-> "read"]

\* the pair gets as far as liquidator.calculateLiquidationProfit
managerEvaluates(strategy, it) ==
    IF strategy = "oracleDelayStrategy"
    THEN hasPriceDiscrepancy(it.dd) /\ hasPriceDiscrepancy(it.dc)
    ELSE inEMode(it.in)

\* the estimate of the pair, with profitCalculation.executionPriority *= 1.5
\* (or 1.2) when it is profitable
managerEstimate(strategy, it) ==
    LET e == calculateLiquidationProfit(it.in)
    IN  IF ~e.profitable THEN e
        ELSE IF strategy = "oracleDelayStrategy" THEN Boost(e, 3, 2)
        ELSE Boost(e, 6, 5)

\* netProfitUsd > config.minProfitUsd * 2 (or * 1.5), inside if (profitable)
managerExecutes(strategy, it) ==
    LET e == calculateLiquidationProfit(it.in)
    IN  /\ managerEvaluates(strategy, it)
        /\ e.profitable
        /\ IF strategy = "oracleDelayStrategy"
           THEN e.netProfitUsd > minProfitUsd * UsdScale * 2
           ELSE e.netProfitUsd * 2 > minProfitUsd * UsdScale * 3

ManagerFrame == UNCHANGED <<now, isRunning, timers, oracleHistory, eModeHistory, tasks, returned, exited, calcVars, monVars, selVars, priceVars, paramVars, reserveVars>>

\* the loops come to the next pair: prices read, the estimate awaited, and
\* executeLiquidation called when the pair is very profitable
ManagerPair ==
    /\ scanIn.pc = "read"
    /\ Len(scanIn.items) < MaxPairs
    /\ \E u \in ScanUsers :
        /\ \A i \in DOMAIN scanIn.items : scanIn.items[i].in.user # u
        /\ \E it \in IF scanIn.strategy = "eModeStrategy"
                       THEN ScanItems(u, ManagerAmounts, {0})
                       ELSE ScanItems(u, ManagerAmounts, Discrepancies) :
            IF managerExecutes(scanIn.strategy, it)
            THEN /\ scanIn' = [scanIn EXCEPT !.items = Append(@, it), !.pc = "wait"]
                 /\ scanOut' = Append(scanOut, managerEstimate(scanIn.strategy, it))
            ELSE /\ scanIn' = [scanIn EXCEPT !.items = Append(@, it)]
                 /\ UNCHANGED scanOut
    /\ UNCHANGED <<lastExecutionTime, executionHistory, lastTerminalAt>>
    /\ ManagerFrame

\* await liquidator.executeLiquidation(...) returns: the result is recorded,
\* and the invocation returns only if (result.success)
ManagerResult ==
    /\ scanIn.pc = "wait"
    /\ \E status \in {0, 1} :
        /\ executionHistory' =
               Append(executionHistory,
                      [receiptResult(status) EXCEPT
                          !.cause = IF status = 1 THEN "status1" ELSE "status0"])
        /\ scanIn' = [scanIn EXCEPT !.pc = IF status = 1 THEN "done" ELSE "read"]
    /\ lastExecutionTime' = now
    /\ lastTerminalAt' = now
    /\ UNCHANGED scanOut
    /\ ManagerFrame

\* the loops are over: no position is left
ManagerReturn ==
    /\ scanIn.pc = "read"
    /\ scanIn' = [scanIn EXCEPT !.pc = "done"]
    /\ UNCHANGED <<scanOut, lastExecutionTime, executionHistory, lastTerminalAt>>
    /\ ManagerFrame

ManagerInit ==
    /\ OrchIdle
    /\ MonitorIdle
    /\ chainHf = [a \in Addresses |-> healthFactorThreshold]
    /\ selection = IdleSelection
    /\ PriceIdle
    /\ ParamIdle
    /\ ReserveIdle
    /\ calcIn = <<>>
    /\ calcOut = <<>>
    /\ scanIn \in {EmptyRun(strategy) : strategy \in ManagerStrategies}
    /\ scanOut = <<>>

ManagerNext ==
    \/ ManagerPair
    \/ ManagerResult
    \/ ManagerReturn

ManagerSpec == ManagerInit /\ [][ManagerNext]_vars


-----------------------------------------------------------------------------
(* Properties *)

Last(h) == h[Len(h)]

SubmittedPcs == {"wait", "directWait"}

\* C1: at every instant at most one liquidation is in flight (submitted and
\* not yet classified), over every entry point of the StrategyManager and
\* every interleaving of their continuations.
C1_AtMostOneInFlight == InFlight <= 1

\* C2: an attempt requested through an entry point while less than the
\* cooldown has elapsed since the last execution never gets as far as a
\* submitted transaction.
C2_EarlyRequestRejected == \A r \in TaskSet : r.early => r.pc \notin SubmittedPcs

\* C3: a step that ends an attempt because the gas price read exceeds the
\* ceiling leaves lastExecutionTime as it was.
C3_GasAbortKeepsCooldown ==
    [][(/\ executionHistory' # executionHistory
        /\ Last(executionHistory').cause = "gasHigh")
       => lastExecutionTime' = lastExecutionTime]_vars

\* C4: on both paths a liquidation transaction is submitted only after the
\* gas price was read for the attempt and found at or below the ceiling.
C4_SubmittedOnlyBelowCeiling ==
    \A r \in TaskSet : r.pc \in SubmittedPcs => r.gas # 0 /\ r.gas <= maxGasPriceGwei

\* C5: no execution of the monitoring loop is submitted unless a full
\* cooldown has elapsed since the moment the last attempt was classified
\* Settled or Failed.
C5_CooldownFromTerminalMoment ==
    \A r \in TaskSet : r.entry = "loop" /\ r.pc \in SubmittedPcs => ~r.earlyT

FailedReceipt ==
    [success |-> FALSE, transactionHash |-> "tx", error |-> "Transaction failed",
     cause |-> "status0"]

FailureCauses == {"exception", "gasHigh", "noBalance", "status0"}

\* C7: whatever fails during an attempt (reading the gas price or the
\* balance, sending, waiting for the receipt, a receipt with failure status),
\* executeLiquidation and executeDirectLiquidation return a result with
\* success = false to their caller and never throw.
C7_FailuresReturnedAsResults ==
    /\ \A i \in DOMAIN returned :
        /\ returned[i].kind = "returned"
        /\ returned[i].result.cause \in FailureCauses => ~returned[i].result.success
    /\ \A i \in DOMAIN oracleHistory :
        oracleHistory[i].cause \in FailureCauses => ~oracleHistory[i].success
    /\ \A i \in DOMAIN eModeHistory :
        eModeHistory[i].cause \in FailureCauses => ~eModeHistory[i].success

\* the direct path returned after the wait for the receipt threw
C7_Witness ==
    \E i \in DOMAIN returned :
        /\ returned[i].task.pc = "directWait"
        /\ returned[i].result.cause = "exception"
        /\ returned[i].result.error = ThrownMessage

\* C8: a result with success = true, or with a transaction hash, is produced
\* only by the step that received the receipt of the submitted transaction,
\* and success = true only for a receipt that reports success.
C8_ClassifiedAfterConfirmation ==
    /\ \A i \in DOMAIN returned :
        /\ returned[i].result.success => returned[i].result.cause = "status1"
        /\ returned[i].result.transactionHash # None =>
            /\ returned[i].task.pc \in SubmittedPcs
            /\ returned[i].result.cause \in {"status0", "status1"}
    /\ \A i \in DOMAIN oracleHistory :
        /\ oracleHistory[i].success => oracleHistory[i].cause = "status1"
        /\ oracleHistory[i].transactionHash # None =>
            oracleHistory[i].cause \in {"status0", "status1"}
    /\ \A i \in DOMAIN eModeHistory :
        /\ eModeHistory[i].success => eModeHistory[i].cause = "status1"
        /\ eModeHistory[i].transactionHash # None =>
            eModeHistory[i].cause \in {"status0", "status1"}

\* both classifications have been returned: one receipt with failure status,
\* one with success
C8_Witness ==
    \E i, j \in DOMAIN returned :
        /\ returned[i].result.cause = "status0"
        /\ ~returned[i].result.success
        /\ returned[j].result.cause = "status1"
        /\ returned[j].result.success

ApprovedPcs == {"approve", "approveWait", "directGas", "directSend", "directWait"}

\* C9: on the direct path an attempt whose balance read is below debtToCover
\* ends at the balance check with "Insufficient balance", and no attempt gets
\* to the approval or the liquidation call with such a balance.
C9_InsufficientBalanceStops ==
    /\ \A r \in TaskSet :
        r.entry = "direct" /\ r.pc \in ApprovedPcs => r.bal >= r.queue[1].debtToCover
    /\ \A i \in DOMAIN returned :
        LET t == returned[i].task IN
        /\ t.entry = "direct" /\ t.pc \in ApprovedPcs => t.bal >= t.queue[1].debtToCover
        /\ t.entry = "direct" /\ t.bal # 0 /\ t.bal < t.queue[1].debtToCover =>
            /\ t.pc = "balance"
            /\ returned[i].result.error = "Insufficient balance"
            /\ ~returned[i].result.success
            /\ returned[i].result.transactionHash = None

\* a direct attempt ended with a balance one short of debtToCover
C9_Witness ==
    \E i \in DOMAIN returned :
        /\ returned[i].result.cause = "noBalance"
        /\ returned[i].task.bal = returned[i].task.queue[1].debtToCover - 1

\* C10: the estimate covers 95% of the whole debt amount when the health
\* factor is strictly below closeFactorHfThreshold, and 95% of half of it
\* when the health factor is at or above the threshold.
C10_CloseFactorSelection ==
    calcOut # <<>> =>
        LET e == calcOut[1]
            covered == IF e.healthFactor < closeFactorHfThreshold
                       THEN e.amount
                       ELSE e.amount \div 2
        IN  /\ e.healthFactor = calcIn.healthFactor
            /\ e.amount = calcIn.amount
            /\ e.debtToCover = (covered * 95) \div 100

\* an estimate at the threshold itself, of an amount whose half differs
C10_Witness ==
    /\ calcOut # <<>>
    /\ calcOut[1].healthFactor = closeFactorHfThreshold
    /\ calcOut[1].amount > 1000

\* the close-factor cap in basis points for the health factor of a snapshot
CapBps(healthFactor) == IF healthFactor < closeFactorHfThreshold THEN 10000 ELSE 5000

\* debtToCover is within the cap on the snapshot's amount and is the 95% of
\* the cap (in whole base units) rounded down
WithinCap(e) ==
    LET cap == (e.amount * CapBps(e.healthFactor)) \div 10000
    IN  /\ 10000 * cap <= e.amount * CapBps(e.healthFactor)
        /\ e.amount * CapBps(e.healthFactor) < 10000 * (cap + 1)
        /\ 100 * e.debtToCover <= 95 * cap
        /\ 95 * cap < 100 * (e.debtToCover + 1)
        /\ e.debtToCover <= cap

\* C11: in every estimate produced, and in every liquidation submitted with
\* it, debtToCover is at most the close-factor cap (50% or 100% by the health
\* factor of the snapshot) of the snapshot's debt amount, and is 95% of that
\* cap rounded down.
C11_DebtToCoverWithinCap ==
    /\ calcOut # <<>> =>
        /\ calcOut[1].amount = calcIn.amount
        /\ calcOut[1].healthFactor = calcIn.healthFactor
        /\ WithinCap(calcOut[1])
    /\ \A r \in TaskSet :
        r.pc \in SubmittedPcs =>
            /\ r.queue[1].debtToCover = calcOut[1].debtToCover
            /\ WithinCap(r.queue[1])

\* a liquidation is submitted for a snapshot at the threshold whose half
\* amount is not whole
C11_Witness ==
    \E r \in TaskSet :
        /\ r.pc \in SubmittedPcs
        /\ r.queue[1].healthFactor = closeFactorHfThreshold
        /\ r.queue[1].amount = 5
        /\ r.queue[1].debtToCover = 1

\* every estimate at hand: the one just produced or adjusted, and those the
\* attempts under way carry
EstimatesAtHand ==
    {calcOut[i] : i \in DOMAIN calcOut}
        \cup UNION {{r.queue[i] : i \in DOMAIN r.queue} : r \in TaskSet}

\* C12: for every estimate, when produced and after any strategy's priority
\* adjustment, profitable holds exactly when the net profit is above the
\* minimum-profit floor, and the net profit is the gross profit less the
\* financing fee and the gas cost.
C12_ProfitableIffAboveFloor ==
    /\ \A e \in EstimatesAtHand :
        /\ e.profitable <=> e.netProfitUsd > minProfitUsd * UsdScale
        /\ e.netProfitUsd = e.estimatedProfitUsd - e.estimatedGasCostUsd
    /\ calcOut # <<>> =>
        LET e == calcOut[1]
            debtUsd == (e.debtToCover * calcIn.debtPrice * UsdScale)
                           \div Pow10(calcIn.debtDecimals)
            collateralUsd == (e.collateralToReceive * calcIn.collateralPrice * UsdScale)
                                 \div Pow10(calcIn.collateralDecimals)
            fee == (debtUsd * flashLoanPremium) \div 10000
            gas == gasCostUsdOf(calcIn.gasPrice, calcIn.ethPrice)
        IN  /\ e.estimatedProfitUsd = collateralUsd - debtUsd
            /\ e.netProfitUsd = collateralUsd - debtUsd - fee - gas

\* a profitable estimate whose priority a strategy raised is being executed,
\* its gross profit above the floor and its fee and gas both charged
C12_Witness ==
    \E r \in TaskSet :
        /\ r.pc \in SubmittedPcs
        /\ r.queue[1].profitable
        /\ r.queue[1].executionPriority
              # calculateLiquidationProfit(calcIn).executionPriority
        /\ r.queue[1].netProfitUsd < r.queue[1].estimatedProfitUsd
              - gasCostUsdOf(calcIn.gasPrice, calcIn.ethPrice)

\* the single division of the collateral formula, for a bonus in basis points
CollateralBySingleDivision(in, debtToCover, bonusBps) ==
    (in.debtPrice * debtToCover * Pow10(in.collateralDecimals) * bonusBps)
        \div (in.collateralPrice * Pow10(in.debtDecimals) * 10000)

\* C13: the collateral receivable of an estimate is
\* floor(debtPrice * debtToCover * 10^collateralDecimals * liquidationBonusBps
\*       / (collateralPrice * 10^debtDecimals * 10000)),
\* with the collateral asset's liquidation bonus in basis points, 10500 when
\* the asset's configuration omits it.
C13_CollateralBySingleDivision ==
    calcOut # <<>> =>
        calcOut[1].collateralToReceive =
            CollateralBySingleDivision(calcIn, calcOut[1].debtToCover,
                IF calcIn.bonus = 0 THEN defaultLiquidationBonusBps ELSE calcIn.bonus)

\* the estimate of the input at hand under another gas price and premium
EstimateAt(gasPrice, premium) ==
    estimateWithPremium([calcIn EXCEPT !.gasPrice = gasPrice], premium)

\* C14: with the position, the asset pair and the prices fixed, raising the
\* gas price or the flash loan premium never raises the net profit of the
\* estimate and never turns an unprofitable estimate profitable.
C14_NetProfitMonotone ==
    calcOut # <<>> =>
        /\ calcOut[1] = EstimateAt(calcIn.gasPrice, flashLoanPremium)
        /\ \A g1 \in GasPrices, g2 \in GasPrices, p1 \in PremiumChoices, p2 \in PremiumChoices :
            g1 <= g2 /\ p1 <= p2 =>
                /\ EstimateAt(g2, p2).netProfitUsd <= EstimateAt(g1, p1).netProfitUsd
                /\ EstimateAt(g2, p2).profitable => EstimateAt(g1, p1).profitable

\* an estimate made at the premium in force is unprofitable where a zero
\* premium would have made it profitable, and a higher gas price lowers its
\* net profit further
C14_Witness ==
    /\ calcOut # <<>>
    /\ ~calcOut[1].profitable
    /\ EstimateAt(calcIn.gasPrice, 0).profitable
    /\ calcIn.gasPrice < maxGasPriceGwei + 1
    /\ EstimateAt(maxGasPriceGwei + 1, flashLoanPremium).netProfitUsd
          < calcOut[1].netProfitUsd

\* C15: the priority of an estimate is (netProfit / debtValue) * 100 when it
\* is profitable and exactly 0 otherwise; an unprofitable estimate has
\* priority 0 whatever the strategies did, below every profitable one.
C15_PriorityZeroUnlessProfitable ==
    /\ \A e \in EstimatesAtHand :
        /\ ~e.profitable => e.executionPriority = Frac(0, 1)
        /\ e.profitable => e.executionPriority.n > 0 /\ e.executionPriority.d > 0
    /\ \A e1 \in EstimatesAtHand, e2 \in EstimatesAtHand :
        ~e1.profitable /\ e2.profitable =>
            ~FracGt(e1.executionPriority, e2.executionPriority)
    /\ calcOut = <<calculateLiquidationProfit(calcIn)>> /\ calcOut[1].profitable =>
        LET debtUsd == (calcOut[1].debtToCover * calcIn.debtPrice * UsdScale)
                           \div Pow10(calcIn.debtDecimals)
        IN  calcOut[1].executionPriority = Frac(calcOut[1].netProfitUsd * 100, debtUsd)

\* a profitable estimate (net 184.58 on a debt value of 3800) scored
\* 184.58 / 3800 * 100 and raised by one half is being executed
C15_Witness ==
    \E r \in TaskSet :
        /\ r.pc \in SubmittedPcs
        /\ r.queue[1].profitable
        /\ r.queue[1].debtToCover = 3800
        /\ r.queue[1].netProfitUsd = 1845800
        /\ r.queue[1].executionPriority = Frac(18458 * 3, 3800 * 2)

\* C17: the set of monitored addresses changes only when a scan stores the
\* detailed position of the address it is at; no step of
\* getLiquidatablePositions, whatever it reads, changes the set.
C17_LiquidatableKeepsMonitoredSet ==
    [][/\ (monitorCall.op = "getLiquidatablePositions"
              \/ monitorCall'.op = "getLiquidatablePositions")
           => MonitoredAddresses' = MonitoredAddresses
       /\ MonitoredAddresses' # MonitoredAddresses
           => /\ monitorCall.op = "scanForLowHealthFactors"
              /\ monitorCall.pc = "detail"
              /\ MonitoredAddresses' = MonitoredAddresses \cup {Head(monitorCall.todo)}]_vars

\* getLiquidatablePositions has returned a position after re-reading both
\* monitored addresses and rewriting a stored health factor, the pool having
\* moved since the scan
C17_Witness ==
    /\ monitorOut # <<>>
    /\ monitorOut[1].op = "getLiquidatablePositions"
    /\ Len(monitorOut[1].log) = 2
    /\ monitorOut[1].out # <<>>
    /\ \E i \in DOMAIN monitoredUsers :
        monitoredUsers[i].healthFactor = healthFactorThreshold
    /\ MonitoredAddresses = Addresses

\* C18: a monitored address whose health factor stays above the watch
\* threshold from some cycle on is eventually dropped from the monitored set
\* for good.
C18_EventuallyRemoved ==
    \A a \in Addresses :
        <>[](chainHf[a] > healthFactorThreshold) => <>[](a \notin MonitoredAddresses)

\* the addresses of the log entries with a given outcome, in order
Outcome(log, outcome) ==
    Keys(SelectSeq(log, LAMBDA entry : entry.outcome = outcome))

\* C19: every position getLiquidatablePositions returns carries a health
\* factor strictly below the liquidation threshold, also when the pool's
\* health factor moved between the re-read and the detailed refresh; an
\* address re-read at or above the threshold is not returned.
C19_ReturnedBelowBoundary ==
    monitorOut # <<>> /\ monitorOut[1].op = "getLiquidatablePositions" =>
        /\ \A i \in DOMAIN monitorOut[1].out :
            monitorOut[1].out[i].healthFactor < healthFactorLiquidationThreshold
        /\ \A i \in DOMAIN monitorOut[1].log :
            monitorOut[1].log[i].read >= healthFactorLiquidationThreshold =>
                monitorOut[1].log[i].outcome = "notBelow"

\* C20: scanForLowHealthFactors returns a detailed position for exactly the
\* input addresses whose account read succeeded with a health factor strictly
\* below the watch threshold and whose detailed read succeeded, and the
\* monitored set gains exactly those addresses; an address read at or above
\* the watch threshold is neither returned nor added.
C20_ScanReturnsExactlyBelowWatch ==
    monitorOut # <<>> /\ monitorOut[1].op = "scanForLowHealthFactors" =>
        LET res == monitorOut[1] IN
        /\ Keys(res.out) = Outcome(res.log, "returned")
        /\ MonitoredAddresses = res.before \cup {res.out[i].user : i \in DOMAIN res.out}
        /\ \A i \in DOMAIN res.log :
            LET entry == res.log[i] IN
            /\ entry.read = 0 <=> entry.outcome = "readFailed"
            /\ entry.read >= healthFactorThreshold <=> entry.outcome = "notBelow"
            /\ entry.read # 0 /\ entry.read < healthFactorThreshold
                  <=> entry.outcome \in {"returned", "detailFailed"}

\* a scan of both addresses returned the one read just below the watch
\* threshold and left out the one read at the threshold, which is not
\* monitored
C20_Witness ==
    /\ monitorOut # <<>>
    /\ monitorOut[1].op = "scanForLowHealthFactors"
    /\ Len(monitorOut[1].log) = 2
    /\ \E i \in DOMAIN monitorOut[1].log :
        /\ monitorOut[1].log[i].read = healthFactorThreshold
        /\ monitorOut[1].log[i].user \notin MonitoredAddresses
    /\ \E i \in DOMAIN monitorOut[1].log :
        /\ monitorOut[1].log[i].read = healthFactorLiquidationThreshold
        /\ monitorOut[1].log[i].outcome = "returned"
    /\ Len(monitorOut[1].out) = 1

\* C16: when the estimate of one pair fails, only that pair is skipped: if a
\* pair of another position of the same cycle is profitable, executeStrategy
\* still hands an opportunity to executeLiquidation in that cycle.
C16_FailingPairOnlySkipped ==
    /\ selection.pc = "done"
    /\ selection.failed # <<>>
    /\ \E i \in DOMAIN selection.positions :
        /\ selection.positions[i].user # selection.failed[1]
        /\ \A g \in GasPrices : EstimateFor(selection.positions[i], g).profitable
    => selection.chosen # <<>>

\* a step in which a read of the address at hand fails
ReadFails ==
    /\ monitorCall.op # "idle"
    /\ Len(monitorCall'.log) = Len(monitorCall.log) + 1
    /\ Last(monitorCall'.log).outcome \in {"readFailed", "detailFailed"}

\* C21: a failed read for one address in scanForLowHealthFactors or
\* getLiquidatablePositions leaves the call running on the remaining
\* addresses and the monitored set as it was; every call reads each of its
\* addresses before it returns, and getLiquidatablePositions reads every
\* monitored address, those whose read failed before included.
C21_ReadFailureSkipsOneAddress ==
    [][/\ ReadFails =>
            /\ monitoredUsers' = monitoredUsers
            /\ monitorCall'.op = monitorCall.op
            /\ monitorCall'.pc = "read"
            /\ monitorCall'.todo = Tail(monitorCall.todo)
            /\ monitorCall'.out = monitorCall.out
       /\ monitorCall.op # "idle" /\ monitorCall'.op = monitorCall.op =>
            Keys(monitorCall'.log) \o monitorCall'.todo
                = Keys(monitorCall.log) \o monitorCall.todo
       /\ monitorCall.op # "idle" /\ monitorCall'.op = "idle" =>
            /\ monitorCall.todo = <<>>
            /\ monitorOut'[1].log = monitorCall.log
            /\ monitorCall.op = "getLiquidatablePositions" =>
                    Keys(monitorCall.log) = Keys(monitoredUsers)]_vars

\* getLiquidatablePositions returned the position of the second monitored
\* address after the read of the first one failed, and the first one is
\* still monitored
C21_Witness ==
    /\ monitorOut # <<>>
    /\ monitorOut[1].op = "getLiquidatablePositions"
    /\ Len(monitorOut[1].log) = 2
    /\ monitorOut[1].log[1].outcome = "readFailed"
    /\ monitorOut[1].log[2].outcome = "returned"
    /\ monitorOut[1].log[1].user \in MonitoredAddresses

\* C22: hasPriceDiscrepancy answers, without raising, false for an asset that
\* has no cached quote or whose cached quote has no discrepancy figure,
\* whatever was fetched for the other assets, and it answers true only when
\* the cached discrepancy is strictly greater than the configured threshold.
C22_FalseWithoutFigure ==
    [][\A a \in PriceAssets :
        (priceAsked' # priceAsked /\ priceAsked'[1].asset = a) =>
            LET answer == priceAsked'[1].answer
                quote == priceCache[a]
            IN  /\ answer \in BOOLEAN
                /\ priceCache' = priceCache
                /\ (quote = <<>> \/ quote[1].discrepancyPercentage = <<>>) => ~answer
                /\ answer => /\ quote # <<>>
                              /\ quote[1].discrepancyPercentage # <<>>
                              /\ quote[1].discrepancyPercentage[1] > priceDifferenceThreshold]_vars

\* WETH, never quoted, was answered false while DAI has a quote whose
\* discrepancy is above the threshold
C22_Witness ==
    /\ priceAsked = <<[asset |-> "WETH", answer |-> FALSE]>>
    /\ priceCache["WETH"] = <<>>
    /\ cachedDiscrepancy(priceCache, "DAI")

\* C23: getPriceData fails only when the canonical oracle read fails, and
\* then the cache is as it was; when the oracle answers and the external
\* source has no price, the quote is still returned and cached, with no
\* external price and no discrepancy figure, whatever the quote it
\* supersedes held.  Only the asset's own entry changes.
C23_OnlyOracleFailureIsFatal ==
    [][(priceCall.pc # "idle" /\ priceCall'.pc = "idle") =>
        LET a == priceCall.asset
            out == priceOut'[1]
        IN  /\ out.asset = a
            /\ (out.kind = "thrown") <=> (priceCall.pc = "oracle")
            /\ out.kind = "thrown" => priceCache' = priceCache
            /\ out.kind = "returned" =>
                /\ priceCache'[a] # <<>>
                /\ \A b \in PriceAssets \ {a} : priceCache'[b] = priceCache[b]
                /\ priceCache'[a][1].aaveOraclePrice = priceCall.aave
                /\ priceCache'[a][1].timestamp = now
                /\ priceCache'[a][1].externalApiPrice = out.external
                /\ out.external = <<>> => priceCache'[a][1].discrepancyPercentage = <<>>]_vars

\* a quote of WETH without external price and without discrepancy figure has
\* replaced one whose discrepancy was above the threshold
C23_Witness ==
    /\ priceOut # <<>>
    /\ priceOut[1].kind = "returned"
    /\ priceOut[1].asset = "WETH"
    /\ priceOut[1].external = <<>>
    /\ cachedDiscrepancy([a \in PriceAssets |-> priceOut[1].superseded], "WETH")
    /\ priceCache["WETH"][1].externalApiPrice = <<>>
    /\ priceCache["WETH"][1].discrepancyPercentage = <<>>
    /\ ~cachedDiscrepancy(priceCache, "WETH")

\* the freshness windows the clock of the model can tell apart
FreshnessWindows == 1..(MaxTime - 1)

\* C24: a cached quote older than the freshness window is expired:
\* hasPriceDiscrepancy reports a discrepancy only from a quote observed no
\* more than one freshness window ago, for some window.
C24_NoStaleDiscrepancy ==
    [][\A a \in PriceAssets :
        (priceAsked' # priceAsked /\ priceAsked'[1].asset = a /\ priceAsked'[1].answer) =>
            \E w \in FreshnessWindows : now - priceCache[a][1].timestamp <= w]_vars

\* where the pair of a user stands among those a scan went through
PlaceOf(items, u) == CHOOSE i \in DOMAIN items : items[i].in.user = u

\* the estimate a list holds for a user, if any
ListedFor(list, u) == {list[k] : k \in {i \in DOMAIN list : list[i].user = u}}

\* C25: the candidate list a strategy scan returns is in descending order of
\* the boosted priority, estimates of equal priority standing in the order in
\* which the scan produced them; the priorities sorted are the boosted ones.
C25_SortedByBoostedPriority ==
    scanOut # <<>> =>
        LET out == scanOut[1]
            produced == IF scanIn.strategy = "eMode" THEN eModeScanned(scanIn.items)
                        ELSE oracleScanned(scanIn.items)
        IN  /\ Len(out) = Len(produced)
            /\ \A k \in DOMAIN produced : \E i \in DOMAIN out : out[i] = produced[k]
            /\ \A i, j \in DOMAIN out :
                i < j =>
                    /\ ~FracGt(out[j].executionPriority, out[i].executionPriority)
                    /\ out[i].executionPriority = out[j].executionPriority =>
                        PlaceOf(scanIn.items, out[i].user) < PlaceOf(scanIn.items, out[j].user)

\* three candidates: the one the scan produced last stands first, the two
\* others have equal boosted priorities, different boosts, and kept their order
C25_Witness ==
    /\ scanOut # <<>>
    /\ Len(scanOut[1]) = 3
    /\ scanOut[1][1].user = scanIn.items[3].in.user
    /\ scanOut[1][2].user = scanIn.items[1].in.user
    /\ scanOut[1][3].user = scanIn.items[2].in.user
    /\ FracGt(scanOut[1][1].executionPriority, scanOut[1][2].executionPriority)
    /\ scanOut[1][2].executionPriority = scanOut[1][3].executionPriority
    /\ scanIn.items[1].dd # scanIn.items[2].dd

\* a leg earns the boost when its discrepancy exceeds the strategy's minimum
Exceeds(d) == d > minPriceDiscrepancyPercent

\* C26: the oracle-discrepancy scan multiplies the priority of a profitable
\* pair by 1 + (debt discrepancy + collateral discrepancy) / 100 when at
\* least one leg exceeds the minimum, whether or not the other leg has a
\* discrepancy figure, and leaves it as it is when neither leg does.
C26_BoostEarnedByEitherLeg ==
    (scanOut # <<>> /\ scanIn.strategy = "oracleDelay") =>
        \A k \in DOMAIN scanIn.items :
            LET it == scanIn.items[k]
                base == calculateLiquidationProfit(it.in)
                listed == ListedFor(scanOut[1], it.in.user)
            IN  base.profitable =>
                    IF Exceeds(it.dd) \/ Exceeds(it.dc)
                    THEN listed = {Boost(base, 10000 + it.dd + it.dc, 10000)}
                    ELSE listed \subseteq {base}

\* C27: the E-Mode scan multiplies the priority by 1.2 for exactly the
\* positions of a nonzero E-Mode category: each profitable estimate of such a
\* position is listed with 6/5 of its priority, and no estimate of a position
\* of category 0 is listed or boosted.
C27_EModeBoostOnlyInEMode ==
    (scanOut # <<>> /\ scanIn.strategy = "eMode") =>
        /\ \A i \in DOMAIN scanOut[1] : scanOut[1][i].eModeCategoryId # 0
        /\ \A k \in DOMAIN scanIn.items :
            LET it == scanIn.items[k]
                base == calculateLiquidationProfit(it.in)
                listed == ListedFor(scanOut[1], it.in.user)
            IN  IF it.in.eModeCategoryId # 0 /\ base.profitable
                THEN listed = {Boost(base, 6, 5)}
                ELSE listed = {}

\* a profitable position of category 0 was left out, one of category 1 is
\* listed with a priority above the estimate's own
C27_Witness ==
    /\ scanOut # <<>>
    /\ scanIn.strategy = "eMode"
    /\ Len(scanIn.items) = 2
    /\ scanIn.items[1].in.eModeCategoryId = 0
    /\ calculateLiquidationProfit(scanIn.items[1].in).profitable
    /\ scanIn.items[2].in.eModeCategoryId = 1
    /\ Len(scanOut[1]) = 1
    /\ scanOut[1][1].user = scanIn.items[2].in.user
    /\ FracGt(scanOut[1][1].executionPriority,
              calculateLiquidationProfit(scanIn.items[2].in).executionPriority)

\* the monitoring cycles under way: continuousMonitoring past its isRunning test
InCycle == [r \in TaskSet |-> IF r.entry = "loop" /\ r.pc # "startScan" THEN 1 ELSE 0]

CyclesUnderWay == CountIn(TaskSet, InCycle)

\* a timer is pending for the time d
Due(d) == \E i \in DOMAIN timers : timers[i] = d

\* the invocations a step has ended
Ended == {r \in TaskSet : CopiesIn(r, tasks') < CopiesIn(r, tasks)}

\* C28: while the manager is not stopped every monitoring cycle is followed
\* by another one.  A cycle that ends, normally or on an error, schedules
\* the next one, later after an error of the scan and at the monitoring
\* interval otherwise; a timer that fires while running begins a cycle; and
\* every timer pending within the horizon of the clock does fire.
C28_LoopReschedulesItself ==
    /\ [][CyclesUnderWay' < CyclesUnderWay =>
            \E delay \in {monitoringInterval, errorBackoff} :
                /\ timers' = Schedule(timers, now + delay)
                /\ delay = errorBackoff => \A r \in Ended : r.pc = "cycleScan"]_vars
    /\ [][(isRunning /\ Len(timers') < Len(timers)) =>
            CyclesUnderWay' = CyclesUnderWay + 1]_vars
    /\ \A d \in 0..MaxTime :
        (isRunning /\ Due(d)) ~> (~isRunning \/ (~Due(d) /\ CyclesUnderWay > 0))

\* a cycle has executed a liquidation and a later one is under way
C28_Witness ==
    /\ isRunning
    /\ executionHistory # <<>>
    /\ timers = <<>>
    /\ \E r \in TaskSet : r.entry = "loop" /\ r.pc = "cycleScan"

\* C29: once the manager is stopped no monitoring cycle begins: a timer that
\* fires is dropped without any scan or execution and without a new timer,
\* and the number of cycles under way does not grow while it stays stopped.
C29_NoCycleAfterStop ==
    [][~isRunning =>
        /\ Len(timers') < Len(timers) =>
            /\ timers' = Tail(timers)
            /\ tasks' = tasks
            /\ executionHistory' = executionHistory
            /\ lastExecutionTime' = lastExecutionTime
        /\ ~isRunning' => CyclesUnderWay' <= CyclesUnderWay]_vars

\* the manager is stopped, a cycle had executed a liquidation and scheduled
\* its successor, and that timer has fired: nothing is pending or under way
C29_Witness ==
    /\ ~isRunning
    /\ ~exited
    /\ executionHistory # <<>>
    /\ timers = <<>>
    /\ tasks = EmptyBag

\* C30: the process does not exit while a liquidation is submitted and its
\* settlement awaited: at exit no execution is in flight.
C30_NoExitWhileInFlight == exited => InFlight = 0

\* C31: the estimates compared within one executeStrategy call are computed
\* from one snapshot: no two of them read different gas prices
C31_ComparedEstimatesShareSnapshot ==
    \A i, j \in DOMAIN selection.observed :
        selection.observed[i] = selection.observed[j]

\* C32: the tuple executeOperation decodes from the params of the flash-loan
\* path is the tuple executeLiquidation encoded, field by field in the same
\* order: collateral asset, debt asset, user, debt to cover and the flag
\* (false: the underlying asset is received); and every tuple of these
\* types survives encoding and decoding unchanged
C32_ParamsRoundTrip ==
    /\ poolLiquidationCall # <<>> =>
            poolLiquidationCall[1] =
                [collateralAsset |-> flashCalculation[1].collateralAsset,
                 debtAsset |-> flashCalculation[1].debtAsset,
                 user |-> flashCalculation[1].user,
                 debtToCover |-> flashCalculation[1].debtToCover,
                 receiveAToken |-> FALSE]
    /\ \A c \in FlashCalculations, flag \in BOOLEAN :
            LET tuple == <<c.collateralAsset, c.debtAsset, c.user, c.debtToCover, flag>>
            IN  abiDecode(abiEncode(encodedTypes, tuple), decodedTypes) = tuple

\* a liquidation whose collateral and debt assets differ has been decoded
C32_Witness ==
    /\ poolLiquidationCall # <<>>
    /\ flashCalculation[1].collateralAsset = "WETH"
    /\ flashCalculation[1].debtAsset = "DAI"
    /\ poolLiquidationCall[1].debtAsset = "DAI"
    /\ poolLiquidationCall[1].debtToCover = 3800

\* the history an entry point records its attempts in
HistoryOf(entry) ==
    CASE entry \in {"loop", "oracleDelayStrategy", "eModeStrategy"} -> "executionHistory"
      [] entry = "oracleExecute" -> "oracleHistory"
      [] entry = "eModeExecute" -> "eModeHistory"
      [] OTHER -> None

\* the pcs of an invocation inside executeLiquidation
AttemptPcs == {"gas", "send", "wait"}

\* this step ends the attempt of an invocation of the entry point: the
\* invocation was inside executeLiquidation and has not moved on within it
AttemptEnds(r) ==
    /\ r.pc \in AttemptPcs
    /\ CopiesIn(r, tasks') < CopiesIn(r, tasks)
    /\ ~\E r2 \in BagToSet(tasks') :
            /\ CopiesIn(r2, tasks') > CopiesIn(r2, tasks)
            /\ r2.entry = r.entry /\ r2.queue = r.queue
            /\ r2.pc \in AttemptPcs /\ r2.pc # r.pc

\* h2 is h with exactly n results appended
Appended(h, h2, n) == Len(h2) = Len(h) + n /\ SubSeq(h2, 1, Len(h)) = h

Histories ==
    [executionHistory |-> executionHistory, oracleHistory |-> oracleHistory,
     eModeHistory |-> eModeHistory]

HistoriesAfter ==
    [executionHistory |-> executionHistory', oracleHistory |-> oracleHistory',
     eModeHistory |-> eModeHistory']

\* C33: a step that ends an execution attempt appends exactly one result,
\* an ExecutionResult the Liquidator returned, to the history of the
\* orchestrator the attempt was made through, and no other step changes a
\* history: earlier entries stay as they are and the lengths count the
\* attempts that ended
C33_OneResultPerAttempt ==
    [][\A name \in DOMAIN Histories :
        LET ended == {r \in TaskSet : HistoryOf(r.entry) = name /\ AttemptEnds(r)}
        IN  IF ended = {}
            THEN HistoriesAfter[name] = Histories[name]
            ELSE /\ Appended(Histories[name], HistoriesAfter[name], 1)
                 /\ HistoriesAfter[name][Len(HistoriesAfter[name])].success \in BOOLEAN]_vars

\* the manager recorded a failed attempt and then a successful one
C33_Witness ==
    /\ Len(executionHistory) = 2
    /\ ~executionHistory[1].success
    /\ executionHistory[2].success
    /\ tasks = EmptyBag

\* the estimates of the pairs read up to the one of the user, as the
\* strategy evaluated them
EvaluatedUpTo(user) ==
    {managerEstimate(scanIn.strategy, scanIn.items[k]) :
        k \in {j \in DOMAIN scanIn.items :
                  /\ j <= PlaceOf(scanIn.items, user)
                  /\ managerEvaluates(scanIn.strategy, scanIn.items[j])}}

\* C34: an estimate submitted by an invocation is profitable and no
\* profitable estimate evaluated in the invocation by then has a greater
\* priority
C34_SubmittedIsBestProfitable ==
    \A i \in DOMAIN scanOut :
        /\ scanOut[i].profitable
        /\ \A e \in EvaluatedUpTo(scanOut[i].user) :
              e.profitable => ~FracGt(e.executionPriority, scanOut[i].executionPriority)

\* C35: one invocation of an execution entry point submits at most one
\* liquidation: once an attempt of the invocation has failed, the invocation
\* submits no further one
C35_OneSubmissionPerInvocation ==
    Len(scanOut) <= 1

\* this step ends the executeStrategy call of the cycle r without a
\* candidate: no liquidatable position, or no profitable estimate
NoOpportunity(r) ==
    /\ r.entry = "loop"
    /\ r.pc = "positions"
    /\ CopiesIn(r, tasks') < CopiesIn(r, tasks)
    /\ \A r2 \in BagToSet(tasks') : CopiesIn(r2, tasks') <= CopiesIn(r2, tasks)

\* C36: a cycle without a liquidatable position or without a profitable
\* estimate submits nothing and leaves lastExecutionTime and the execution
\* history as they were: the cooldown is not consumed
C36_NoOpportunityLeavesCooldown ==
    [][(\E r \in TaskSet : NoOpportunity(r)) =>
          /\ lastExecutionTime' = lastExecutionTime
          /\ executionHistory' = executionHistory
          /\ InFlight' = InFlight
          /\ lastTerminalAt' = lastTerminalAt]_vars

\* the first cycle found nothing to execute: the next one is scheduled, and
\* nothing was recorded
C36_Witness ==
    /\ now = executionCooldown
    /\ isRunning
    /\ tasks = EmptyBag
    /\ timers = <<now + monitoringInterval>>
    /\ lastExecutionTime = 0
    /\ executionHistory = <<>>

\* C37: the estimate executed on the direct-capital path carries no
\* financing cost: its net profit is the gross profit less the gas cost (at
\* the gas price and native price the estimate read)
C37_DirectEstimateWithoutFinancingCost ==
    \A r \in TaskSet :
        (r.entry = "direct" /\ r.queue # <<>>) =>
            Head(r.queue).netProfitUsd =
                Head(r.queue).estimatedProfitUsd
                    - gasCostUsdOf(maxGasPriceGwei, OraclePrices.native)

\* C38: once getReserveInfo has succeeded for an asset, the data source
\* serves no further read of that asset's configuration, whatever the
\* order and overlap of initialize and getUserDetailedPosition
C38_NoReadAfterSuccess ==
    \A a \in ReserveAssets : reserveReads[a].afterSuccess = 0

\* C39: whatever start and stop calls were made, at most one monitoring
\* loop is alive and no two monitoring cycles run at the same time
C39_AtMostOneLoop ==
    CyclesUnderWay <= 1

====
